---- MODULE Spec2Model ----
(***************************************************************************)
(* EcomCompare: crawl orchestration (CheerioCrawler, PuppeteerCrawler,     *)
(* CrawlerManager, the /api/websites crawl routes and the CrawlJob /       *)
(* Product tables) and the product matching engine (MatchingService).      *)
(*                                                                         *)
(* Node.js runs one macrotask at a time: everything a handler does between *)
(* two real suspensions (a network fetch, a timer, a browser call) is one  *)
(* atomic action here; promise continuations (microtasks) run inside the   *)
(* action that resolved the promise.                                       *)
(***************************************************************************)
EXTENDS Integers, Sequences, FiniteSets, TLC

VARIABLES
    world,              \* the crawled site (environment), by name
    puppeteerAvailable, \* cheerioCrawler.js:343-353 module flag
    pc,                 \* per request: position of the POST /:id/crawl handler
    crawler,            \* per request: the crawler object created for it
    events,             \* per request: progress events passed to onProgress
    activeJobs,         \* CrawlerManager.activeJobs (Map websiteId -> jobInfo)
    outcome,            \* per request: how startCrawl settled
    jobs,               \* crawl_jobs rows (one per accepted request)
    website,            \* websites rows (status, crawl_type)
    dbProducts,         \* products rows per website, in insertion order
    mState,             \* matching: products, options and last run's output
    dbMatches,          \* product_matches rows
    dbWebsites,         \* websites rows (is_source), by id
    productTable,       \* products rows of those websites, and the last id given
    siteCrawl,          \* the websites whose crawl handler awaits startCrawl
    dedup,              \* a deduplicateProducts call: raw list and result
    priceCall           \* a parsePrice call: the string and the result

vars == <<world, puppeteerAvailable, pc, crawler, events, activeJobs, outcome,
          jobs, website, dbProducts, mState, dbMatches,
          dbWebsites, productTable, siteCrawl, dedup, priceCall>>

crawlVars == <<world, puppeteerAvailable, pc, crawler, events, activeJobs,
               outcome, jobs, website, dbProducts>>

matchVars == <<mState, dbMatches>>

siteVars == <<dbWebsites, productTable, siteCrawl>>

-----------------------------------------------------------------------------
(* Bounds of the model *)

MaxTasks == 2        \* crawl requests (POST /:id/crawl) that may arrive
NumUrls == 7         \* same-host URLs of the crawled site
MaxPagesBound == 3   \* options.maxPages ranges over 1..MaxPagesBound
MaxSrc == 2          \* rows Product.findSourceProducts may return
MaxComp == 1         \* rows Product.findCompetitorProducts may return
MaxMatchesOption == 1 \* options.maxMatchesPerProduct ranges over 0..MaxMatchesOption
MaxSites == 2          \* websites ever added
MaxProductId == 2      \* product rows ever inserted for them
MaxCrawlProducts == 1  \* products one crawl of such a website brings
MaxRaw == 3            \* raw products handed to one deduplicateProducts call
MaxPriceLen == 4        \* characters of a price text
MaxPageLinks == 33     \* same-host hrefs on the widest page of the crawled sites

(* Program constants *)

maxFailedPages == 5  \* CheerioCrawler constructor, this.maxFailedPages

Tasks == 1..MaxTasks
Urls == 1..NumUrls
BaseUrl == 1
Keys == {"w1"}
NULL == "null"
NullPrice == 0 - 1

Max(a, b) == IF a >= b THEN a ELSE b
Min(a, b) == IF a <= b THEN a ELSE b

-----------------------------------------------------------------------------
(* Raw products and the pages of the crawled site *)

RawProduct(n, p, s, i, u) ==
    [name |-> n, price |-> p, sku |-> s, image_url |-> i, product_url |-> u]

Catalog ==
    << RawProduct("A", 10, "S1", NULL, "/a"),
       RawProduct("A2", NullPrice, "S1", "a.png", NULL),
       RawProduct("B", NullPrice, NULL, NULL, "/b"),
       RawProduct("B", 5, NULL, "b.png", "/b"),
       RawProduct("C", 7, NULL, NULL, NULL) >>

PageProducts(u) ==
    CASE u % 3 = 1 -> << Catalog[1], Catalog[3] >>
      [] u % 3 = 2 -> << Catalog[2], Catalog[4] >>
      [] OTHER     -> << Catalog[5] >>

\* An address on another host than the crawled site's; the addresses on the
\* site's own host are the numbers in Urls
OtherHostUrl == 0 - 1

\* A page: the hrefs its pagination selectors match, the hrefs of its
\* listing-style anchors, and the products its markup describes.
Page(pag, cat, prods) == [pagination |-> pag, category |-> cat, products |-> prods]

RECURSIVE Range(_, _)
Range(a, b) == IF a > b THEN <<>> ELSE <<a>> \o Range(a + 1, b)

StarSite == [u \in Urls |->
    IF u = BaseUrl THEN Page(<<OtherHostUrl>>, <<OtherHostUrl>> \o Range(2, NumUrls), PageProducts(u))
    ELSE Page(<<BaseUrl>>, <<>>, PageProducts(u))]

ChainSite == [u \in Urls |->
    Page(IF u < NumUrls THEN <<u + 1, u + 1>> ELSE <<>>, <<u, OtherHostUrl, BaseUrl>>,
         PageProducts(u))]

FullSite == [u \in Urls |-> Page(<<u>>, Range(1, NumUrls), PageProducts(u))]

SmallSite == [u \in Urls |->
    Page(IF u = BaseUrl THEN <<BaseUrl + 1>> ELSE <<>>, <<>>,
         IF u = BaseUrl THEN << Catalog[1] >> ELSE << Catalog[5] >>)]

\* every page lists two further pages: links are found while others wait
TreeSite == [u \in Urls |->
    Page(<<>>, SelectSeq(<<2 * u, OtherHostUrl, 2 * u + 1>>, LAMBDA v : v <= NumUrls),
         PageProducts(u))]

\* a start page with two pagination links and more listing links than the
\* cap on listing links lets through; the pages behind them are empty
WideSite == [u \in 1..(MaxPageLinks + 1) |->
    IF u = BaseUrl THEN Page(<<2, 3>>, Range(4, MaxPageLinks + 1), PageProducts(u))
    ELSE Page(<<>>, <<>>, <<>>)]

Sites == {"star", "chain", "full", "tree", "wide"}

\* the page a fetch of url returns from the site named by world
PageOf(w, url) ==
    CASE w = "star"  -> StarSite[url]
      [] w = "chain" -> ChainSite[url]
      [] w = "full"  -> FullSite[url]
      [] w = "tree"  -> TreeSite[url]
      [] w = "wide"  -> WideSite[url]
      [] OTHER       -> SmallSite[url]

-----------------------------------------------------------------------------
(* Sequence helpers *)

SeqRange(s) == {s[i] : i \in 1..Len(s)}

\* [...new Set(list)]: first occurrences, in order
Unique(s) ==
    LET first == {i \in 1..Len(s) : \A j \in 1..(i - 1) : s[j] # s[i]} IN
    [k \in 1..Cardinality(first) |->
        s[CHOOSE i \in first : Cardinality({j \in first : j <= i}) = k]]

Slice(s, n) == SubSeq(s, 1, Min(n, Len(s)))

Last(s) == s[Len(s)]

-----------------------------------------------------------------------------
(* Deduplicator: CheerioCrawler.deduplicateProducts (same code in           *)
(* PuppeteerCrawler.deduplicateProducts)                                    *)

StrFalsy(s) == s = NULL \/ s = ""
PriceFalsy(p) == p = NullPrice \/ p = 0

\* product.sku || product.product_url || product.name
ProductKey(product) ==
    IF ~StrFalsy(product.sku) THEN product.sku
    ELSE IF ~StrFalsy(product.product_url) THEN product.product_url
    ELSE product.name

\* a merge that backfills product_url in place of sku
MergeProductUrlNotSku(existing, product) ==
    [existing EXCEPT
        !.price = IF PriceFalsy(@) /\ ~PriceFalsy(product.price) THEN product.price ELSE @,
        !.product_url = IF StrFalsy(@) /\ ~StrFalsy(product.product_url)
                        THEN product.product_url ELSE @,
        !.image_url = IF StrFalsy(@) /\ ~StrFalsy(product.image_url)
                      THEN product.image_url ELSE @]

\* the else-branch of the loop: backfill price, sku and image_url
MergeProduct(existing, product) ==
    [existing EXCEPT
        !.price = IF PriceFalsy(@) /\ ~PriceFalsy(product.price) THEN product.price ELSE @,
        !.sku = IF StrFalsy(@) /\ ~StrFalsy(product.sku) THEN product.sku ELSE @,
        !.image_url = IF StrFalsy(@) /\ ~StrFalsy(product.image_url)
                      THEN product.image_url ELSE @]

RECURSIVE DedupFold(_, _)
\* seen: the Map of the code as a sequence of [key, product] in insertion order
DedupFold(products, seen) ==
    IF products = <<>> THEN seen
    ELSE LET product == Head(products)
             key == ProductKey(product)
             idx == {i \in 1..Len(seen) : seen[i].key = key}
         IN IF idx = {}
            THEN DedupFold(Tail(products), Append(seen, [key |-> key, product |-> product]))
            ELSE LET i == CHOOSE j \in idx : TRUE IN
                 DedupFold(Tail(products),
                           [seen EXCEPT ![i].product = MergeProduct(@, product)])

deduplicateProducts(products) ==
    LET seen == DedupFold(products, <<>>) IN [i \in 1..Len(seen) |-> seen[i].product]

-----------------------------------------------------------------------------
(* Link discovery *)

CategoryLinkCap == 30

\* new URL(url).hostname
hostname(url) == IF url >= 1 THEN "shop.example" ELSE "other.example"

\* a host test that lets every address pass
isSameDomainAny(url) == TRUE

\* BaseCrawler.isSameDomain: parsed.hostname === this.hostname
isSameDomain(url) == hostname(url) = hostname(BaseUrl)

\* CheerioCrawler.findPaginationLinks: normalised same-host hrefs, de-duplicated
findPaginationLinks(page) == Unique(SelectSeq(page.pagination, isSameDomain))

\* CheerioCrawler.findCategoryLinks: same-host hrefs, de-duplicated, capped
findCategoryLinks(page) ==
    Slice(Unique(SelectSeq(page.category, isSameDomain)), CategoryLinkCap)

\* PuppeteerCrawler.findLinks: same-host pagination then category hrefs,
\* de-duplicated, capped
findLinks(page) ==
    Slice(Unique(SelectSeq(page.pagination \o page.category, isSameDomain)), CategoryLinkCap)

\* an enqueue loop that tests only the queue, not the visited set
EnqueueNoVisitedCheck(urlsToVisit, visitedUrls, links) ==
    urlsToVisit \o Unique(SelectSeq(links, LAMBDA link :
        link \notin SeqRange(urlsToVisit)))

\* an enqueue loop that puts new links at the head of the queue (unshift)
EnqueueFront(urlsToVisit, visitedUrls, links) ==
    LET new == Unique(SelectSeq(links, LAMBDA link :
                   link \notin visitedUrls /\ link \notin SeqRange(urlsToVisit)))
    IN [i \in 1..Len(new) |-> new[Len(new) + 1 - i]] \o urlsToVisit

\* for (const link of links)
\*   if (!this.visitedUrls.has(link) && !urlsToVisit.includes(link)) urlsToVisit.push(link)
\* A link is pushed when it is not visited, not queued before the loop and not
\* pushed earlier in the loop: the first occurrences of such links, in order.
Enqueue(urlsToVisit, visitedUrls, links) ==
    urlsToVisit \o Unique(SelectSeq(links, LAMBDA link :
        link \notin visitedUrls /\ link \notin SeqRange(urlsToVisit)))

-----------------------------------------------------------------------------
(* Crawler objects.  pc is the await at which crawl() is suspended:         *)
(*   "launch"  PuppeteerCrawler.init: puppeteer.launch() in flight          *)
(*   "setup"   PuppeteerCrawler.init: newPage / page set-up in flight       *)
(*   "fetch"   CheerioCrawler: fetchPage(url) in flight                     *)
(*             PuppeteerCrawler: goto .. extractProductsFromPage in flight  *)
(*   "links"   PuppeteerCrawler: findLinks() in flight                      *)
(*   "sleep"   the rate-limiting sleep(options.delay) in flight             *)
(*   "returned" / "threw"  crawl() has settled                              *)

NoCrawler ==
    [type |-> "none", pc |-> "new", url |-> 0, urlsToVisit |-> <<>>,
     visitedUrls |-> {}, pagesCrawled |-> 0, failedPages |-> 0,
     cancelled |-> FALSE, browser |-> FALSE, products |-> <<>>,
     maxPages |-> 0, closeInvoked |-> FALSE]

\* BaseCrawler constructor + subclass constructor
NewCrawler(type, maxPages) ==
    [NoCrawler EXCEPT !.type = type, !.maxPages = maxPages]

Running(c) == c.pc \in {"launch", "setup", "fetch", "links", "sleep"}
Settled(c) == c.pc \in {"returned", "threw"}

\* this.onProgress({status, message, pagesCrawled, productsFound})
Emit(st, status, message, url) ==
    [st EXCEPT !.ev = Append(@, [status |-> status, message |-> message, url |-> url,
                                 pagesCrawled |-> st.c.pagesCrawled,
                                 productsFound |-> Len(st.c.products)])]

\* CheerioCrawler.crawl, after the loop: deduplicate, final event, return
CheerioFinish(st) ==
    LET d == [st EXCEPT !.c.products = deduplicateProducts(@)]
        e == Emit(d, IF d.c.cancelled THEN "cancelled" ELSE "completed", "final", 0)
    IN [e EXCEPT !.c.pc = "returned", !.c.url = 0]

\* a loop that tests the page budget one page too late
CheerioLoopCondOverBudget(c) ==
    c.urlsToVisit # <<>> /\ c.pagesCrawled <= c.maxPages /\ ~c.cancelled

\* the while condition of CheerioCrawler.crawl
CheerioLoopCond(c) ==
    c.urlsToVisit # <<>> /\ c.pagesCrawled < c.maxPages /\ ~c.cancelled

RECURSIVE CheerioLoop(_)
\* CheerioCrawler.crawl from the top of the while loop to the next await
CheerioLoop(st) ==
    IF CheerioLoopCond(st.c)
    THEN IF st.c.failedPages >= maxFailedPages
         THEN CheerioFinish(Emit(st, "error", "too many failed pages", 0))
         ELSE LET url == Head(st.c.urlsToVisit)
                  popped == [st EXCEPT !.c.urlsToVisit = Tail(@)]
              IN IF url \in st.c.visitedUrls
                 THEN CheerioLoop(popped)
                 ELSE [popped EXCEPT !.c.visitedUrls = @ \cup {url},
                                     !.c.url = url, !.c.pc = "fetch"]
    ELSE CheerioFinish(st)

\* CheerioCrawler.crawl up to its first await
CheerioStart(st) ==
    CheerioLoop(Emit([st EXCEPT !.c.urlsToVisit = <<BaseUrl>>], "starting", "starting", 0))

\* a try block that reports the page before counting it
CheerioPageOkReportsFirst(st, page) ==
    LET c == st.c
        q1 == Enqueue(c.urlsToVisit, c.visitedUrls, findPaginationLinks(page))
        q2 == Enqueue(q1, c.visitedUrls, findCategoryLinks(page))
        e == Emit([st EXCEPT !.c.products = @ \o page.products], "crawling", "crawled", c.url)
    IN [e EXCEPT !.c.urlsToVisit = q2, !.c.pagesCrawled = @ + 1, !.c.pc = "sleep"]

\* the try block after fetchPage resolved, up to await this.sleep
CheerioPageOk(st, page) ==
    LET c == st.c
        q1 == Enqueue(c.urlsToVisit, c.visitedUrls, findPaginationLinks(page))
        q2 == Enqueue(q1, c.visitedUrls, findCategoryLinks(page))
        n == [st EXCEPT !.c.products = @ \o page.products,
                        !.c.urlsToVisit = q2,
                        !.c.pagesCrawled = @ + 1]
    IN [Emit(n, "crawling", "crawled", c.url) EXCEPT !.c.pc = "sleep"]

\* a crawl without the per-page catch block: the page error leaves crawl()
CheerioPageErrorThrows(st) == [st EXCEPT !.c.pc = "threw", !.c.url = 0]

\* a catch block reached after the page's products were already pushed
CheerioPageErrorKeepsPage(st) ==
    CheerioLoop(Emit([st EXCEPT !.c.failedPages = @ + 1,
                                !.c.products = @ \o PageOf(world, st.c.url).products],
                     "error", "error crawling", st.c.url))

\* a catch block that puts the page back on the frontier for another try
\* instead of counting the failure
CheerioPageErrorRequeues(st) ==
    [st EXCEPT !.c.urlsToVisit = <<st.c.url>> \o @,
               !.c.visitedUrls = @ \ {st.c.url},
               !.c.pc = "sleep"]

\* the catch block, then the loop again
CheerioPageError(st) ==
    CheerioLoop(Emit([st EXCEPT !.c.failedPages = @ + 1], "error", "error crawling", st.c.url))

\* PuppeteerCrawler.close as seen by crawl(): browser and page become null
PuppeteerClosed(c) == [c EXCEPT !.browser = FALSE]

\* PuppeteerCrawler.crawl after the loop: deduplicate, final event, finally close
PuppeteerFinish(st) ==
    LET d == [st EXCEPT !.c.products = deduplicateProducts(@)]
        e == Emit(d, "completed", "final", 0)
    IN [e EXCEPT !.c = [PuppeteerClosed(@) EXCEPT !.pc = "returned", !.url = 0]]

\* a crawl() without the finally block: a rejection leaves the browser open
PuppeteerThrowNoFinally(st) == [st EXCEPT !.c.pc = "threw", !.c.url = 0]

\* crawl() rejects: the finally block closes the browser
PuppeteerThrow(st) ==
    [st EXCEPT !.c = [PuppeteerClosed(@) EXCEPT !.pc = "threw", !.url = 0]]

PuppeteerLoopCond(c) == c.urlsToVisit # <<>> /\ c.pagesCrawled < c.maxPages

RECURSIVE PuppeteerLoop(_)
\* PuppeteerCrawler.crawl from the top of the while loop to the next await;
\* with this.page null, this.page.goto throws at once and the catch block runs
PuppeteerLoop(st) ==
    IF PuppeteerLoopCond(st.c)
    THEN LET url == Head(st.c.urlsToVisit)
             popped == [st EXCEPT !.c.urlsToVisit = Tail(@)]
         IN IF url \in st.c.visitedUrls
            THEN PuppeteerLoop(popped)
            ELSE LET v == [popped EXCEPT !.c.visitedUrls = @ \cup {url}, !.c.url = url]
                 IN IF v.c.browser
                    THEN [v EXCEPT !.c.pc = "fetch"]
                    ELSE PuppeteerLoop(Emit(v, "error", "error crawling", url))
    ELSE PuppeteerFinish(st)

\* init() done: the starting event, then the loop
PuppeteerStart(st) ==
    PuppeteerLoop(Emit([st EXCEPT !.c.urlsToVisit = <<BaseUrl>>], "starting", "starting", 0))

\* goto, autoScroll and extractProductsFromPage resolved: products are pushed
PuppeteerPageOk(st, page) ==
    [st EXCEPT !.c.products = @ \o page.products, !.c.pc = "links"]

\* findLinks resolved: enqueue, count the page, report, then sleep
PuppeteerLinksOk(st, page) ==
    LET c == st.c
        n == [st EXCEPT !.c.urlsToVisit = Enqueue(@, c.visitedUrls, findLinks(page)),
                        !.c.pagesCrawled = @ + 1]
    IN [Emit(n, "crawling", "crawled", c.url) EXCEPT !.c.pc = "sleep"]

\* the catch block of PuppeteerCrawler.crawl, then the loop again
PuppeteerPageError(st) ==
    PuppeteerLoop(Emit(st, "error", "error crawling", st.c.url))

\* crawler.close(): CheerioCrawler sets the flag; PuppeteerCrawler closes the
\* browser if one is set (a no-op while puppeteer.launch is still in flight)
CloseCrawler(c) ==
    LET k == [c EXCEPT !.closeInvoked = Running(c) \/ @] IN
    IF c.type = "cheerio" THEN [k EXCEPT !.cancelled = TRUE]
    ELSE IF c.type = "puppeteer" /\ c.browser THEN PuppeteerClosed(k)
    ELSE k

-----------------------------------------------------------------------------
(* Persistence and the manager's registry *)

NoOutcome == [kind |-> "none", products |-> <<>>, crawlerType |-> "none", message |-> NULL]
NoJob == [status |-> "none", crawled_pages |-> 0, total_products |-> 0, error_message |-> NULL]

TimeoutMessage == "Crawl timed out"

\* every request of the model addresses the same website
KeyOf(t) == CHOOSE k \in Keys : TRUE

\* Map get / has / set / delete; 0 stands for "no entry"
MapHas(m, k) == m[k] # 0
MapSet(m, k, v) == [m EXCEPT ![k] = v]
MapDelete(m, k) == [m EXCEPT ![k] = 0]

OrNull(s) == IF StrFalsy(s) THEN NULL ELSE s
PriceOrNull(p) == IF PriceFalsy(p) THEN NullPrice ELSE p

\* the row Product.createMany inserts for one item
ProductRow(item) ==
    [name |-> item.name, price |-> PriceOrNull(item.price), sku |-> OrNull(item.sku),
     image_url |-> OrNull(item.image_url), product_url |-> OrNull(item.product_url)]

\* Product.createMany
ProductCreateMany(rows, products) ==
    rows \o [i \in 1..Len(products) |-> ProductRow(products[i])]

\* CrawlJob.create
CrawlJobCreate == [NoJob EXCEPT !.status = "running"]

\* CrawlJob.update(job.id, {crawled_pages, total_products}) of options.onProgress
CrawlJobUpdate(job, progress) ==
    [job EXCEPT !.crawled_pages = progress.pagesCrawled,
                !.total_products = progress.productsFound]

\* CrawlJob.complete
CrawlJobComplete(job, totalProducts) ==
    [job EXCEPT !.status = "completed", !.total_products = totalProducts]

\* CrawlJob.fail
CrawlJobFail(job, errorMessage) ==
    [job EXCEPT !.status = "failed", !.error_message = errorMessage]

\* CrawlJob.findLatest: the row created last (requests are numbered in the
\* order they arrive, so the highest numbered row)
CrawlJobFindLatest(js) ==
    LET have == {t \in Tasks : js[t].status # "none"} IN
    IF have = {} THEN 0 ELSE CHOOSE t \in have : \A s \in have : s <= t

-----------------------------------------------------------------------------
(* CrawlerManager.startCrawl and the POST /:id/crawl handler around it *)

\* options.onProgress for every event the step emitted (the last one stands)
OnProgress(t, ev, job) ==
    IF Len(ev) > Len(events[t]) /\ job.status # "none"
    THEN CrawlJobUpdate(job, Last(ev)) ELSE job

\* startCrawl's try branch, then the handler's: save products, complete the job
StartCrawlReturns(t, products, job) ==
    /\ activeJobs' = MapDelete(activeJobs, KeyOf(t))
    /\ outcome' = [outcome EXCEPT ![t] = [kind |-> "success", products |-> products,
                                          crawlerType |-> crawler[t].type, message |-> NULL]]
    /\ dbProducts' = IF Len(products) > 0
                     THEN [dbProducts EXCEPT ![KeyOf(t)] = ProductCreateMany(@, products)]
                     ELSE dbProducts
    /\ jobs' = [jobs EXCEPT ![t] = CrawlJobComplete(job, Len(products))]
    /\ website' = [website EXCEPT ![KeyOf(t)].status = "completed"]
    /\ pc' = [pc EXCEPT ![t] = "done"]

\* a catch branch that forgets activeJobs.delete
StartCrawlThrowsKeepsEntry(t, message, job) ==
    /\ outcome' = [outcome EXCEPT ![t] = [kind |-> "error", products |-> <<>>,
                                          crawlerType |-> "none", message |-> message]]
    /\ jobs' = [jobs EXCEPT ![t] = CrawlJobFail(job, message)]
    /\ website' = [website EXCEPT ![KeyOf(t)].status = "failed"]
    /\ pc' = [pc EXCEPT ![t] = "done"]
    /\ UNCHANGED <<dbProducts, activeJobs>>

\* startCrawl's catch branch, then the handler's: fail the job
StartCrawlThrows(t, message, job) ==
    /\ activeJobs' = MapDelete(activeJobs, KeyOf(t))
    /\ outcome' = [outcome EXCEPT ![t] = [kind |-> "error", products |-> <<>>,
                                          crawlerType |-> "none", message |-> message]]
    /\ jobs' = [jobs EXCEPT ![t] = CrawlJobFail(job, message)]
    /\ website' = [website EXCEPT ![KeyOf(t)].status = "failed"]
    /\ pc' = [pc EXCEPT ![t] = "done"]
    /\ UNCHANGED dbProducts

\* One step of request t's crawl() leading to crawler state st.c and event log
\* st.ev; when crawl() settles while startCrawl still awaits the race, the
\* continuation of startCrawl and of the route handler runs in the same step.
CrawlStep(t, st, message) ==
    /\ crawler' = [crawler EXCEPT ![t] = st.c]
    /\ events' = [events EXCEPT ![t] = st.ev]
    /\ LET job == OnProgress(t, st.ev, jobs[t]) IN
       IF pc[t] = "racing" /\ st.c.pc = "returned"
       THEN StartCrawlReturns(t, st.c.products, job)
       ELSE IF pc[t] = "racing" /\ st.c.pc = "threw"
       THEN StartCrawlThrows(t, message, job)
       ELSE /\ jobs' = [jobs EXCEPT ![t] = job]
            /\ UNCHANGED <<pc, activeJobs, outcome, website, dbProducts>>
    /\ UNCHANGED <<world, puppeteerAvailable, matchVars, siteVars, dedup, priceCall>>

St(t) == [c |-> crawler[t], ev |-> events[t]]

\* crawler.crawl() called: runs to its first await
CrawlCalled(st) ==
    IF st.c.type = "cheerio" THEN CheerioStart(st) ELSE [st EXCEPT !.c.pc = "launch"]

\* createCrawler's choice once the type is known
CrawlerClass(crawlerType) ==
    IF crawlerType = "puppeteer" /\ puppeteerAvailable THEN "puppeteer" ELSE "cheerio"

\* startCrawl from activeJobs.set to await Promise.race
Register(t, crawlerType, maxPages) ==
    LET st == CrawlCalled([c |-> NewCrawler(CrawlerClass(crawlerType), maxPages),
                           ev |-> <<>>])
    IN /\ activeJobs' = MapSet(activeJobs, KeyOf(t), t)
       /\ crawler' = [crawler EXCEPT ![t] = st.c]
       /\ events' = [events EXCEPT ![t] = st.ev]
       /\ jobs' = [jobs EXCEPT ![t] = OnProgress(t, st.ev, IF @.status = "none" THEN CrawlJobCreate ELSE @)]
       /\ pc' = [pc EXCEPT ![t] = "racing"]

\* POST /:id/crawl up to the first real suspension
PostCrawl(t, maxPages) ==
    /\ pc[t] = "idle"
    /\ \A s \in Tasks : s < t => pc[s] # "idle"
    /\ IF MapHas(activeJobs, KeyOf(t))
       THEN /\ pc' = [pc EXCEPT ![t] = "rejected"]
            /\ UNCHANGED <<crawler, events, activeJobs, jobs, website, dbProducts>>
       ELSE /\ website' = [website EXCEPT ![KeyOf(t)].status = "crawling"]
            /\ dbProducts' = [dbProducts EXCEPT ![KeyOf(t)] = <<>>]
            /\ IF website[KeyOf(t)].crawl_type = "auto" /\ puppeteerAvailable
               THEN \* createCrawler awaits detectCrawlerType's fetch
                    /\ pc' = [pc EXCEPT ![t] = "detecting"]
                    /\ jobs' = [jobs EXCEPT ![t] = CrawlJobCreate]
                    /\ crawler' = [crawler EXCEPT ![t].maxPages = maxPages]
                    /\ UNCHANGED <<events, activeJobs>>
               ELSE Register(t, IF website[KeyOf(t)].crawl_type = "auto" THEN "cheerio"
                                ELSE website[KeyOf(t)].crawl_type, maxPages)
    /\ UNCHANGED <<world, puppeteerAvailable, outcome, matchVars, siteVars, dedup, priceCall>>

\* detectCrawlerType's fetch settles (a failed detection answers "cheerio")
DetectResolve(t, crawlerType) ==
    /\ pc[t] = "detecting"
    /\ Register(t, crawlerType, crawler[t].maxPages)
    /\ UNCHANGED <<world, puppeteerAvailable, outcome, website, dbProducts, matchVars, siteVars, dedup, priceCall>>

\* a timer callback that rejects without closing the crawler
GlobalTimeoutNoClose(t) ==
    /\ pc[t] = "racing"
    /\ StartCrawlThrows(t, TimeoutMessage, jobs[t])
    /\ UNCHANGED <<world, puppeteerAvailable, crawler, events, matchVars, siteVars, dedup, priceCall>>

\* the setTimeout callback of startCrawl fires: close the crawler, reject
GlobalTimeout(t) ==
    /\ pc[t] = "racing"
    /\ crawler' = [crawler EXCEPT ![t] = CloseCrawler(@)]
    /\ StartCrawlThrows(t, TimeoutMessage, jobs[t])
    /\ UNCHANGED <<world, puppeteerAvailable, events, matchVars, siteVars, dedup, priceCall>>

\* CrawlerManager.cancelCrawl: the registry and the crawlers after it
CancelCrawlRegistry(k) == MapDelete(activeJobs, k)
CancelCrawlCrawlers(k) ==
    IF MapHas(activeJobs, k)
    THEN [crawler EXCEPT ![activeJobs[k]] = CloseCrawler(@)]
    ELSE crawler

\* POST /:id/crawl/cancel
PostCancel(k) ==
    /\ crawler' = CancelCrawlCrawlers(k)
    /\ activeJobs' = CancelCrawlRegistry(k)
    /\ website' = [website EXCEPT ![k].status = "cancelled"]
    /\ LET latest == CrawlJobFindLatest(jobs) IN
       jobs' = IF latest # 0 /\ jobs[latest].status = "running"
               THEN [jobs EXCEPT ![latest] = CrawlJobFail(@, "Cancelled by user")]
               ELSE jobs
    /\ UNCHANGED <<world, puppeteerAvailable, pc, events, outcome, dbProducts, matchVars, siteVars, dedup, priceCall>>

\* POST /:id/reset-status
PostReset(k) ==
    /\ crawler' = CancelCrawlCrawlers(k)
    /\ activeJobs' = CancelCrawlRegistry(k)
    /\ website' = [website EXCEPT ![k].status = "pending"]
    /\ jobs' = [t \in Tasks |-> IF jobs[t].status = "running"
                                THEN CrawlJobFail(jobs[t], "Reset by user") ELSE jobs[t]]
    /\ UNCHANGED <<world, puppeteerAvailable, pc, events, outcome, dbProducts, matchVars, siteVars, dedup, priceCall>>

-----------------------------------------------------------------------------
(* The suspensions of crawl() settling *)

CheerioFetchResolve(t) ==
    /\ crawler[t].type = "cheerio" /\ crawler[t].pc = "fetch"
    /\ CrawlStep(t, CheerioPageOk(St(t), PageOf(world, crawler[t].url)), NULL)

\* fetchPage rejects (network error, HTTP status, timeout) or parsing throws
CheerioFetchReject(t) ==
    /\ crawler[t].type = "cheerio" /\ crawler[t].pc = "fetch"
    /\ CrawlStep(t, CheerioPageError(St(t)), NULL)

SleepResolve(t) ==
    /\ crawler[t].pc = "sleep"
    /\ CrawlStep(t, IF crawler[t].type = "cheerio" THEN CheerioLoop(St(t))
                    ELSE PuppeteerLoop(St(t)), NULL)

PuppeteerLaunchResolve(t) ==
    /\ crawler[t].type = "puppeteer" /\ crawler[t].pc = "launch"
    /\ CrawlStep(t, [St(t) EXCEPT !.c.browser = TRUE, !.c.pc = "setup"], NULL)

PuppeteerLaunchReject(t) ==
    /\ crawler[t].type = "puppeteer" /\ crawler[t].pc = "launch"
    /\ CrawlStep(t, PuppeteerThrow(St(t)), "Failed to launch the browser process")

PuppeteerSetupResolve(t) ==
    /\ crawler[t].type = "puppeteer" /\ crawler[t].pc = "setup"
    /\ crawler[t].browser
    /\ CrawlStep(t, PuppeteerStart(St(t)), NULL)

PuppeteerSetupReject(t) ==
    /\ crawler[t].type = "puppeteer" /\ crawler[t].pc = "setup"
    /\ CrawlStep(t, PuppeteerThrow(St(t)), "Target closed")

PuppeteerPageResolve(t) ==
    /\ crawler[t].type = "puppeteer" /\ crawler[t].pc = "fetch"
    /\ crawler[t].browser
    /\ CrawlStep(t, PuppeteerPageOk(St(t), PageOf(world, crawler[t].url)), NULL)

PuppeteerPageReject(t) ==
    /\ crawler[t].type = "puppeteer" /\ crawler[t].pc = "fetch"
    /\ CrawlStep(t, PuppeteerPageError(St(t)), NULL)

PuppeteerLinksResolve(t) ==
    /\ crawler[t].type = "puppeteer" /\ crawler[t].pc = "links"
    /\ crawler[t].browser
    /\ CrawlStep(t, PuppeteerLinksOk(St(t), PageOf(world, crawler[t].url)), NULL)

PuppeteerLinksReject(t) ==
    /\ crawler[t].type = "puppeteer" /\ crawler[t].pc = "links"
    /\ CrawlStep(t, PuppeteerPageError(St(t)), NULL)

CrawlerNext(t) ==
    \/ CheerioFetchResolve(t)
    \/ CheerioFetchReject(t)
    \/ SleepResolve(t)
    \/ PuppeteerLaunchResolve(t)
    \/ PuppeteerLaunchReject(t)
    \/ PuppeteerSetupResolve(t)
    \/ PuppeteerSetupReject(t)
    \/ PuppeteerPageResolve(t)
    \/ PuppeteerPageReject(t)
    \/ PuppeteerLinksResolve(t)
    \/ PuppeteerLinksReject(t)

-----------------------------------------------------------------------------
(* Text as the matching service reads it: a string is a sequence of          *)
(* one-character strings, so that case folding, trimming, splitting and the  *)
(* edit distance are computed and not assumed                                *)

UpperCase == <<"A", "B", "C", "D", "E", "F", "G", "H", "I", "J", "K", "L", "M",
               "N", "O", "P", "Q", "R", "S", "T", "U", "V", "W", "X", "Y", "Z">>
LowerCase == <<"a", "b", "c", "d", "e", "f", "g", "h", "i", "j", "k", "l", "m",
               "n", "o", "p", "q", "r", "s", "t", "u", "v", "w", "x", "y", "z">>
Digits == {"0", "1", "2", "3", "4", "5", "6", "7", "8", "9"}

\* \w of the regular expressions
IsWordChar(ch) == ch \in SeqRange(LowerCase) \cup SeqRange(UpperCase) \cup Digits \cup {"_"}
\* \s of the regular expressions (and what trim() removes)
IsSpace(ch) == ch \in {" ", "\t", "\n"}

toLowerCase(str) ==
    [i \in 1..Len(str) |->
        IF \E j \in 1..26 : UpperCase[j] = str[i]
        THEN LowerCase[CHOOSE j \in 1..26 : UpperCase[j] = str[i]]
        ELSE str[i]]

\* .replace(/[^\w\s]/g, ' ')
ReplaceNonWord(str) ==
    [i \in 1..Len(str) |-> IF IsWordChar(str[i]) \/ IsSpace(str[i]) THEN str[i] ELSE " "]

RECURSIVE TrimStart(_)
TrimStart(str) ==
    IF str # <<>> /\ IsSpace(Head(str)) THEN TrimStart(Tail(str)) ELSE str

Reverse(str) == [i \in 1..Len(str) |-> str[Len(str) + 1 - i]]

trim(str) == Reverse(TrimStart(Reverse(TrimStart(str))))

RECURSIVE CollapseSpaces(_)
\* .replace(/\s+/g, ' ')
CollapseSpaces(str) ==
    IF str = <<>> THEN <<>>
    ELSE IF IsSpace(Head(str)) THEN <<" ">> \o CollapseSpaces(TrimStart(str))
    ELSE <<Head(str)>> \o CollapseSpaces(Tail(str))

normalize(str) == trim(CollapseSpaces(ReplaceNonWord(toLowerCase(str))))

RECURSIVE SplitSpaces(_, _)
\* .split(/\s+/) without the empty strings it yields at the two ends (the
\* length filter of getWords drops them anyway); cur is the word being read
SplitSpaces(str, cur) ==
    IF str = <<>> THEN (IF cur = <<>> THEN <<>> ELSE <<cur>>)
    ELSE IF IsSpace(Head(str))
         THEN (IF cur = <<>> THEN <<>> ELSE <<cur>>) \o SplitSpaces(TrimStart(str), <<>>)
    ELSE SplitSpaces(Tail(str), Append(cur, Head(str)))

getWords(str) ==
    SelectSeq(SplitSpaces(ReplaceNonWord(toLowerCase(str)), <<>>), LAMBDA w : Len(w) > 2)

\* String.prototype.includes
includes(str, sub) ==
    \E i \in 0..(Len(str) - Len(sub)) : SubSeq(str, i + 1, i + Len(sub)) = sub

RECURSIVE LevenshteinRow(_, _, _, _)
\* the row of the edit-distance table for one more character ch of the first
\* string: prev is the row before it, cur the columns of the new row so far
LevenshteinRow(prev, ch, b, cur) ==
    IF Len(cur) = Len(b) + 1 THEN cur
    ELSE LET j == Len(cur) IN
         LevenshteinRow(prev, ch, b,
             Append(cur, Min(Min(prev[j + 1] + 1, cur[j] + 1),
                             prev[j] + (IF ch = b[j] THEN 0 ELSE 1))))

RECURSIVE LevenshteinRows(_, _, _)
LevenshteinRows(a, b, prev) ==
    IF a = <<>> THEN prev
    ELSE LevenshteinRows(Tail(a), b, LevenshteinRow(prev, Head(a), b, <<prev[1] + 1>>))

\* distance() of fastest-levenshtein: the Levenshtein distance
distance(a, b) == Last(LevenshteinRows(a, b, [j \in 1..(Len(b) + 1) |-> j - 1]))

-----------------------------------------------------------------------------
(* Scores are exact fractions <<numerator, denominator>> in lowest terms     *)

RECURSIVE Gcd(_, _)
Gcd(a, b) == IF b = 0 THEN a ELSE Gcd(b, a % b)

Abs(a) == IF a < 0 THEN 0 - a ELSE a

Frac(n, d) ==
    LET g == Gcd(Abs(n), d) IN <<n \div g, d \div g>>

FAdd(x, y) == Frac(x[1] * y[2] + y[1] * x[2], x[2] * y[2])
FSub(x, y) == Frac(x[1] * y[2] - y[1] * x[2], x[2] * y[2])
FMul(x, y) == Frac(x[1] * y[1], x[2] * y[2])
FDiv(x, y) == Frac(x[1] * y[2], x[2] * y[1])
FLeq(x, y) == x[1] * y[2] <= y[1] * x[2]
FMax(x, y) == IF FLeq(y, x) THEN x ELSE y
FMin(x, y) == IF FLeq(x, y) THEN x ELSE y
FZero == <<0, 1>>
FOne == <<1, 1>>

-----------------------------------------------------------------------------
(* MatchingService, constructed without options as routes/export.js does.    *)
(* A product here is a row of the products table with its text as character  *)
(* sequences; an absent (NULL) sku and an empty one are both <<>>, which is   *)
(* all the service can tell about them; an absent price is NullPrice.        *)

minSimilarity == <<3, 5>>
skuMatchBoost == <<1, 1>>
nameWeight == <<7, 10>>
priceWeight == <<3, 10>>
maxPriceDiffRatio == <<3, 10>>
SkuPartialBoost == <<3, 10>>
NameExactThreshold == <<9, 10>>
DefaultMaxMatches == 5

calculateNameSimilarity(name1, name2) ==
    IF name1 = <<>> \/ name2 = <<>> THEN FZero
    ELSE LET n1 == normalize(name1)
             n2 == normalize(name2)
             maxLen == Max(Len(n1), Len(n2))
         IN  IF n1 = n2 THEN FOne
             ELSE IF maxLen = 0 THEN FZero
             ELSE FSub(FOne, Frac(distance(n1, n2), maxLen))

calculateWordSimilarity(name1, name2) ==
    IF name1 = <<>> \/ name2 = <<>> THEN FZero
    ELSE LET words1 == SeqRange(getWords(name1))
             words2 == SeqRange(getWords(name2))
         IN  IF words1 = {} \/ words2 = {} THEN FZero
             ELSE Frac(Cardinality(words1 \cap words2), Cardinality(words1 \cup words2))

\* the price similarity boost of calculateSimilarity
PriceBoost(price1, price2) ==
    IF PriceFalsy(price1) \/ PriceFalsy(price2) THEN FZero
    ELSE LET priceDiff == Frac(Abs(price1 - price2), 1)
             avgPrice == Frac(price1 + price2, 2)
             priceDiffRatio == FDiv(priceDiff, avgPrice)
         IN  IF FLeq(priceDiffRatio, maxPriceDiffRatio)
             THEN FMul(FSub(FOne, FDiv(priceDiffRatio, maxPriceDiffRatio)), priceWeight)
             ELSE FZero

\* a scorer that never looks at the SKUs
CalculateSimilarityNoSku(sourceProduct, competitorProduct) ==
    LET nameSimilarity ==
            FMax(calculateNameSimilarity(sourceProduct.name, competitorProduct.name),
                 calculateWordSimilarity(sourceProduct.name, competitorProduct.name))
    IN  [score |-> FMin(FAdd(FMul(nameSimilarity, nameWeight),
                             PriceBoost(sourceProduct.price, competitorProduct.price)),
                        FOne),
         matchType |-> IF FLeq(NameExactThreshold, nameSimilarity) THEN "name_exact"
                       ELSE IF FLeq(minSimilarity, nameSimilarity) THEN "name_fuzzy"
                       ELSE "none"]

calculateSimilarity(sourceProduct, competitorProduct) ==
    LET bothSkus == sourceProduct.sku # <<>> /\ competitorProduct.sku # <<>>
        normalizedSourceSku == trim(toLowerCase(sourceProduct.sku))
        normalizedCompSku == trim(toLowerCase(competitorProduct.sku))
        partial == /\ bothSkus
                   /\ \/ includes(normalizedSourceSku, normalizedCompSku)
                      \/ includes(normalizedCompSku, normalizedSourceSku)
        nameSimilarity ==
            FMax(calculateNameSimilarity(sourceProduct.name, competitorProduct.name),
                 calculateWordSimilarity(sourceProduct.name, competitorProduct.name))
        nameType == IF FLeq(NameExactThreshold, nameSimilarity) THEN "name_exact"
                    ELSE IF FLeq(minSimilarity, nameSimilarity) THEN "name_fuzzy"
                    ELSE "none"
        score == FAdd(FAdd(IF partial THEN SkuPartialBoost ELSE FZero,
                           FMul(nameSimilarity, nameWeight)),
                      PriceBoost(sourceProduct.price, competitorProduct.price))
    IN  IF bothSkus /\ normalizedSourceSku = normalizedCompSku
        THEN [score |-> skuMatchBoost, matchType |-> "sku_exact"]
        ELSE [score |-> FMin(score, FOne),
              matchType |-> IF partial THEN "sku_partial" ELSE nameType]

\* the products the tables can hold, in the order of ORDER BY p.name
MatchPool ==
    << [name |-> <<"A", "b", "c", " ", "d", "e">>, sku |-> <<"K", "1">>, price |-> 12],
       [name |-> <<"a", "b", "c", "d">>, sku |-> <<>>, price |-> 10],
       [name |-> <<"a", "b", "x", "y">>, sku |-> <<"k", "1", " ">>, price |-> 10],
       [name |-> <<"d", "e", "-", "a", "b", "c">>, sku |-> <<"K", "1", "2">>, price |-> 12],
       [name |-> <<"x", "y", "z">>, sku |-> <<>>, price |-> NullPrice] >>

\* calculateSimilarity is a pure function of name, sku and price: its values
\* for the rows the tables can hold
SimilarityTable ==
    [s \in SeqRange(MatchPool), c \in SeqRange(MatchPool) |-> calculateSimilarity(s, c)]

ScoredFields(product) ==
    [name |-> product.name, sku |-> product.sku, price |-> product.price]

\* marks every pushed match confirmed, whatever its type
MatchOfAllConfirmed(sourceProduct, competitor) ==
    LET r == SimilarityTable[ScoredFields(sourceProduct), ScoredFields(competitor)] IN
    [source_product_id |-> sourceProduct.id,
     competitor_product_id |-> competitor.id,
     match_type |-> r.matchType,
     match_score |-> r.score,
     is_confirmed |-> TRUE,
     competitor_product |-> competitor]

\* the match findMatchesForProduct pushes for an admitted pair
MatchOf(sourceProduct, competitor) ==
    LET r == SimilarityTable[ScoredFields(sourceProduct), ScoredFields(competitor)] IN
    [source_product_id |-> sourceProduct.id,
     competitor_product_id |-> competitor.id,
     match_type |-> r.matchType,
     match_score |-> r.score,
     is_confirmed |-> r.matchType = "sku_exact",
     competitor_product |-> competitor]

\* the admission test of findMatchesForProduct
Admitted(m) == FLeq(minSimilarity, m.match_score) \/ m.match_type = "sku_exact"

\* a findMatchesForProduct that leaves the matches in iteration order
SortByScoreKeepsOrder(matches) == matches

RECURSIVE SortByScore(_)
\* matches.sort((a, b) => b.match_score - a.match_score): Array.prototype.sort
\* is stable, so equal scores keep their order
SortByScore(matches) ==
    IF matches = <<>> THEN <<>>
    ELSE LET sorted == SortByScore(SubSeq(matches, 1, Len(matches) - 1))
             m == matches[Len(matches)]
             k == Cardinality({i \in 1..Len(sorted) :
                                  FLeq(m.match_score, sorted[i].match_score)})
         IN  SubSeq(sorted, 1, k) \o <<m>> \o SubSeq(sorted, k + 1, Len(sorted))

findMatchesForProduct(sourceProduct, competitorProducts) ==
    SortByScore(SelectSeq(
        [i \in 1..Len(competitorProducts) |-> MatchOf(sourceProduct, competitorProducts[i])],
        Admitted))

\* keeps every candidate: a run that does not track matched competitors
FilteredMatchesKeepAll(options, matches, matchedCompetitors) == matches

\* filteredMatches of runMatching
filteredMatches(options, matches, matchedCompetitors) ==
    IF options.allowDuplicateMatches THEN matches
    ELSE SelectSeq(matches, LAMBDA m : m.competitor_product_id \notin matchedCompetitors)

\* takes every remaining candidate: a run without the slice
TopMatchesUncapped(options, filtered) == filtered

\* topMatches of runMatching; maxMatchesPerProduct 0 stands for an absent
\* (or otherwise falsy) option
topMatches(options, filtered) ==
    Slice(filtered, IF options.maxMatchesPerProduct = 0 THEN DefaultMaxMatches
                    ELSE options.maxMatchesPerProduct)

RECURSIVE MatchLoop(_, _, _, _, _)
\* the loop of runMatching over the source products
MatchLoop(options, sourceProducts, competitorProducts, allMatches, matchedCompetitors) ==
    IF sourceProducts = <<>> THEN allMatches
    ELSE LET matches == findMatchesForProduct(Head(sourceProducts), competitorProducts)
             top == topMatches(options, filteredMatches(options, matches, matchedCompetitors))
         IN  MatchLoop(options, Tail(sourceProducts), competitorProducts,
                       allMatches \o top,
                       IF options.allowDuplicateMatches THEN matchedCompetitors
                       ELSE matchedCompetitors \cup
                            {top[i].competitor_product_id : i \in 1..Len(top)})

NullScore == <<0, 0>>

\* a plain INSERT into a table without the UNIQUE constraint
InsertMatchPlain(table, item) ==
    table \cup
        {[source_product_id |-> item.source_product_id,
          competitor_product_id |-> item.competitor_product_id,
          match_type |-> item.match_type,
          match_score |-> item.match_score,
          is_confirmed |-> IF item.is_confirmed THEN 1 ELSE 0]}

\* one INSERT OR REPLACE INTO product_matches: the row of the same
\* (source_product_id, competitor_product_id) is deleted, a new row is
\* inserted; table is the set of rows, without the id and created_at columns,
\* which nothing reads
InsertOrReplaceMatch(table, item) ==
    LET kept == {r \in table :
                    ~(/\ r.source_product_id = item.source_product_id
                      /\ r.competitor_product_id = item.competitor_product_id)}
    IN  kept \cup
            {[source_product_id |-> item.source_product_id,
              competitor_product_id |-> item.competitor_product_id,
              match_type |-> item.match_type,
              match_score |-> IF item.match_score[1] = 0 THEN NullScore
                              ELSE item.match_score,
              is_confirmed |-> IF item.is_confirmed THEN 1 ELSE 0]}

RECURSIVE ProductMatchCreateMany(_, _)
\* ProductMatch.createMany
ProductMatchCreateMany(table, matches) ==
    IF matches = <<>> THEN table
    ELSE ProductMatchCreateMany(InsertOrReplaceMatch(table, Head(matches)), Tail(matches))

NoSourceError == "No source products found"
NoCompetitorError == "No competitor products found"
NoOptions ==
    [minSimilarity |-> minSimilarity, allowDuplicateMatches |-> FALSE,
     maxMatchesPerProduct |-> 0]

\* no matching run has been made; source and comp are what
\* Product.findSourceProducts and Product.findCompetitorProducts return
MatchIdle(phase, source, comp) ==
    [phase |-> phase, source |-> source, comp |-> comp,
     options |-> NoOptions, matches |-> <<>>, error |-> NULL]

\* a run that empties product_matches before it checks the product lists
RunMatchingClearsFirst(options) ==
    /\ mState.phase # "off"
    /\ LET called == [mState EXCEPT !.options = options]
       IN  IF Len(mState.source) = 0
           THEN /\ mState' = [called EXCEPT !.phase = "threw", !.matches = <<>>,
                                            !.error = NoSourceError]
                /\ dbMatches' = {}
           ELSE IF Len(mState.comp) = 0
           THEN /\ mState' = [called EXCEPT !.phase = "threw", !.matches = <<>>,
                                            !.error = NoCompetitorError]
                /\ dbMatches' = {}
           ELSE LET allMatches == MatchLoop(options, mState.source, mState.comp, <<>>, {})
                IN  /\ mState' = [called EXCEPT !.phase = "ran", !.matches = allMatches,
                                                !.error = NULL]
                    /\ dbMatches' = ProductMatchCreateMany({}, allMatches)
    /\ UNCHANGED <<crawlVars, siteVars, dedup, priceCall>>

\* matchingService.runMatching(options), the whole call.  Of options it reads
\* allowDuplicateMatches and maxMatchesPerProduct only: options.minSimilarity
\* is not read, the admission threshold is this.options.minSimilarity, set by
\* the constructor
RunMatching(options) ==
    /\ mState.phase # "off"
    /\ LET sourceProducts == mState.source
           competitorProducts == mState.comp
           called == [mState EXCEPT !.options = options]
       IN  IF Len(sourceProducts) = 0
           THEN /\ mState' = [called EXCEPT !.phase = "threw", !.matches = <<>>,
                                            !.error = NoSourceError]
                /\ UNCHANGED dbMatches
           ELSE IF Len(competitorProducts) = 0
           THEN /\ mState' = [called EXCEPT !.phase = "threw", !.matches = <<>>,
                                            !.error = NoCompetitorError]
                /\ UNCHANGED dbMatches
           ELSE LET allMatches ==
                        MatchLoop(options, sourceProducts, competitorProducts, <<>>, {})
                IN  /\ mState' = [called EXCEPT !.phase = "ran", !.matches = allMatches,
                                                !.error = NULL]
                    /\ dbMatches' = IF Len(allMatches) > 0
                                    THEN ProductMatchCreateMany(dbMatches, allMatches)
                                    ELSE dbMatches
    /\ UNCHANGED <<crawlVars, siteVars, dedup, priceCall>>

-----------------------------------------------------------------------------
(* SpecMatch: matching runs over the product tables *)

\* the selections of at most n products of the pool, in name order
SortedPicks(n) ==
    UNION {{p \in [1..k -> 1..Len(MatchPool)] : \A i \in 1..(k - 1) : p[i] <= p[i + 1]}
           : k \in 0..n}

\* the rows of the selection, with ids firstId + 1, firstId + 2, ...
MatchProducts(picks, firstId) ==
    [i \in 1..Len(picks) |->
        [id |-> firstId + i, name |-> MatchPool[picks[i]].name,
         sku |-> MatchPool[picks[i]].sku, price |-> MatchPool[picks[i]].price]]

NoMatches == {}

\* the minSimilarity values a request carries: the route's default and a
\* stricter one
RunThresholds == {minSimilarity, <<4, 5>>}

\* the options object POST /run builds from the request body
MatchOptions ==
    [minSimilarity : RunThresholds, allowDuplicateMatches : BOOLEAN,
     maxMatchesPerProduct : 0..MaxMatchesOption]

\* one source product and more equal competitor products than the default
\* maxMatchesPerProduct
WideTables ==
    <<MatchProducts(<<1>>, 0),
      MatchProducts([i \in 1..(DefaultMaxMatches + 1) |-> 1], MaxSrc)>>

\* two source products that both match the second and third competitor with
\* score 1, the second one also the first competitor with a lower score
RankedTables ==
    <<MatchProducts(<<1, 3>>, 0), MatchProducts(<<2, 3, 3>>, MaxSrc)>>

\* the product tables a matching run can find
MatchTables ==
    {<<MatchProducts(src, 0), MatchProducts(cmp, MaxSrc)>> :
        src \in SortedPicks(MaxSrc), cmp \in SortedPicks(MaxComp)}
    \cup {WideTables, RankedTables}

SiteIds == 1..MaxSites
ProductIds == 1..MaxProductId

\* an id AUTOINCREMENT has not given yet ("unused"), a row ("row"), or the id
\* of a deleted row ("deleted")
NoWebsite == [status |-> "unused", is_source |-> 0]

InitSiteIdle ==
    /\ dbWebsites = [w \in SiteIds |-> NoWebsite]
    /\ productTable = [rows |-> {}, lastId |-> 0]
    /\ siteCrawl = {}

InitCrawlIdle ==
    /\ world = "small"
    /\ puppeteerAvailable = FALSE
    /\ pc = [t \in Tasks |-> "idle"]
    /\ crawler = [t \in Tasks |-> NoCrawler]
    /\ events = [t \in Tasks |-> <<>>]
    /\ activeJobs = [k \in Keys |-> 0]
    /\ outcome = [t \in Tasks |-> NoOutcome]
    /\ jobs = [t \in Tasks |-> NoJob]
    /\ website = [k \in Keys |-> [status |-> "pending", crawl_type |-> "auto"]]
    /\ dbProducts = [k \in Keys |-> <<>>]

-----------------------------------------------------------------------------
(* BaseCrawler.parsePrice.  A price string is a sequence of characters.  A   *)
(* JavaScript number is kept as its decimal digits: int without leading      *)
(* zeros, frac without trailing zeros, both empty for 0.                     *)

NaN == [kind |-> "NaN", int |-> <<>>, frac |-> <<>>]
NullNumber == [kind |-> "null", int |-> <<>>, frac |-> <<>>]

\* the number written with the integer digits int and the fraction digits frac
Number(int, frac) ==
    LET lead == {i \in 1..Len(int) : int[i] # "0"}
        trail == {i \in 1..Len(frac) : frac[i] # "0"}
        first == IF lead = {} THEN Len(int) + 1
                 ELSE CHOOSE i \in lead : \A j \in lead : i <= j
        last == IF trail = {} THEN 0
                ELSE CHOOSE i \in trail : \A j \in trail : j <= i
    IN  [kind |-> "number",
         int |-> [k \in 1..(Len(int) - first + 1) |-> int[first + k - 1]],
         frac |-> [k \in 1..last |-> frac[k]]]

\* the length of the run of digits of str that starts at position from
DigitRun(str, from) ==
    Cardinality({n \in from..Len(str) : \A i \in from..n : str[i] \in Digits})

\* parseFloat(str) of a string of digits, '.' and ',': the value of the longest
\* prefix that is a decimal literal, NaN when there is none
parseFloat(str) ==
    LET intLen == DigitRun(str, 1)
        hasDot == intLen < Len(str) /\ str[intLen + 1] = "."
        fracLen == IF hasDot THEN DigitRun(str, intLen + 2) ELSE 0
    IN  IF intLen = 0 /\ fracLen = 0 THEN NaN
        ELSE Number([k \in 1..intLen |-> str[k]],
                    [k \in 1..fracLen |-> str[intLen + 1 + k]])

\* priceStr.replace(/[^0-9.,]/g, '')
StripNonPrice(str) == SelectSeq(str, LAMBDA ch : ch \in Digits \cup {".", ","})

\* str.replace(/ch/g, ''): every occurrence goes
RemoveAll(str, ch) == SelectSeq(str, LAMBDA c : c # ch)

\* str.replace(ch, by) with a string pattern: the first occurrence only
ReplaceFirst(str, ch, by) ==
    LET at == {i \in 1..Len(str) : str[i] = ch} IN
    IF at = {} THEN str
    ELSE LET i == CHOOSE k \in at : \A j \in at : k <= j
         IN  SubSeq(str, 1, i - 1) \o by \o SubSeq(str, i + 1, Len(str))

\* str.lastIndexOf(ch), counted from 1 (0 when ch is absent)
lastIndexOf(str, ch) ==
    LET at == {i \in 1..Len(str) : str[i] = ch} IN
    IF at = {} THEN 0 ELSE CHOOSE k \in at : \A j \in at : j <= k

\* x || null: NaN and 0 are falsy
NumberOrNull(x) ==
    IF x.kind = "NaN" \/ (x.kind = "number" /\ x.int = <<>> /\ x.frac = <<>>)
    THEN NullNumber ELSE x

\* BaseCrawler.parsePrice
parsePrice(priceStr) ==
    IF priceStr = <<>> THEN NullNumber
    ELSE LET cleaned == StripNonPrice(priceStr) IN
         IF includes(cleaned, <<",">>) /\ includes(cleaned, <<".">>)
         THEN IF lastIndexOf(cleaned, ",") > lastIndexOf(cleaned, ".")
              THEN parseFloat(ReplaceFirst(RemoveAll(cleaned, "."), ",", <<".">>))
              ELSE parseFloat(RemoveAll(cleaned, ","))
         ELSE IF includes(cleaned, <<",">>)
         THEN \* parts = cleaned.split(','); parts[parts.length - 1].length === 2
              IF Len(cleaned) - lastIndexOf(cleaned, ",") = 2
              THEN parseFloat(ReplaceFirst(cleaned, ",", <<".">>))
              ELSE parseFloat(ReplaceFirst(cleaned, ",", <<>>))
         ELSE NumberOrNull(parseFloat(cleaned))

InitPriceIdle ==
    priceCall = [phase |-> "off", priceStr |-> <<>>, result |-> NullNumber]

InitDedupIdle ==
    dedup = [phase |-> "off", products |-> <<>>, result |-> <<>>, again |-> <<>>]

InitMatchIdle ==
    /\ mState = MatchIdle("off", <<>>, <<>>)
    /\ dbMatches = NoMatches

InitMatch ==
    /\ \E tables \in MatchTables : mState = MatchIdle("idle", tables[1], tables[2])
    /\ dbMatches = NoMatches
    /\ world = "small"
    /\ puppeteerAvailable = FALSE
    /\ pc = [t \in Tasks |-> "idle"]
    /\ crawler = [t \in Tasks |-> NoCrawler]
    /\ events = [t \in Tasks |-> <<>>]
    /\ activeJobs = [k \in Keys |-> 0]
    /\ outcome = [t \in Tasks |-> NoOutcome]
    /\ jobs = [t \in Tasks |-> NoJob]
    /\ website = [k \in Keys |-> [status |-> "pending", crawl_type |-> "auto"]]
    /\ dbProducts = [k \in Keys |-> <<>>]
    /\ InitSiteIdle
    /\ InitDedupIdle
    /\ InitPriceIdle

NextMatch == \E options \in MatchOptions : RunMatching(options)

SpecMatch == InitMatch /\ [][NextMatch]_vars

-----------------------------------------------------------------------------
(* Websites, their products and the matches between them: the handlers of   *)
(* routes/websites.js and routes/export.js over the tables of               *)
(* database/init.js (foreign keys on, ON DELETE CASCADE).  mState.source and *)
(* mState.comp are kept equal to what Product.findSourceProducts and        *)
(* Product.findCompetitorProducts return from the tables.                   *)

\* Website.findById(id) finds a row
WebsiteFound(id) == dbWebsites[id].status = "row"

\* Website.create: is_source is stored as given
WebsiteCreate(table, id, is_source) ==
    [table EXCEPT ![id] = [status |-> "row", is_source |-> IF is_source THEN 1 ELSE 0]]

\* Website.setSource: is_source = 0 on every row, then is_source = 1 on row id
setSource(table, id) ==
    [w \in SiteIds |->
        IF table[w].status = "row"
        THEN [table[w] EXCEPT !.is_source = IF w = id THEN 1 ELSE 0]
        ELSE table[w]]

\* Website.delete
WebsiteDelete(table, id) == [table EXCEPT ![id] = [status |-> "deleted", is_source |-> 0]]

\* Product.deleteByWebsite, also the cascade of a deleted website
ProductDeleteByWebsite(rows, id) == {p \in rows : p.website_id # id}

\* ON DELETE CASCADE of product_matches: rows of deleted products go
CascadeMatches(matches, rows) ==
    {r \in matches : /\ r.source_product_id \in {p.id : p \in rows}
                     /\ r.competitor_product_id \in {p.id : p \in rows}}

\* Product.createMany of a crawl's products for website id
SiteProductCreateMany(table, id, picks) ==
    [rows |-> table.rows \cup
                {[id |-> table.lastId + i, website_id |-> id,
                  name |-> MatchPool[picks[i]].name, sku |-> MatchPool[picks[i]].sku,
                  price |-> MatchPool[picks[i]].price] : i \in 1..Len(picks)},
     lastId |-> table.lastId + Len(picks)]

\* position of a name in ORDER BY name
NameRank(name) == CHOOSE i \in 1..Len(MatchPool) : MatchPool[i].name = name

RECURSIVE SortByKey(_)
\* the rows of a set of [key, row] in ascending key order
SortByKey(keyed) ==
    IF keyed = {} THEN <<>>
    ELSE LET m == CHOOSE x \in keyed : \A y \in keyed : x.key <= y.key
         IN  <<m.row>> \o SortByKey(keyed \ {m})

\* Product.findSourceProducts: JOIN websites WHERE is_source = 1 ORDER BY p.name
\* (rows of equal name in id order)
findSourceProducts(websites, rows) ==
    SortByKey({[key |-> NameRank(p.name) * (MaxProductId + 1) + p.id, row |-> p] :
                 p \in {q \in rows : /\ websites[q.website_id].status = "row"
                                     /\ websites[q.website_id].is_source = 1}})

\* Product.findCompetitorProducts: WHERE is_source = 0 ORDER BY w.name, p.name
\* (websites are named in id order)
findCompetitorProducts(websites, rows) ==
    SortByKey({[key |-> (p.website_id * (Len(MatchPool) + 1) + NameRank(p.name))
                            * (MaxProductId + 1) + p.id,
                row |-> p] :
                 p \in {q \in rows : /\ websites[q.website_id].status = "row"
                                     /\ websites[q.website_id].is_source = 0}})

\* mState with the two queries re-read from the tables
MatchViews(websites, rows) ==
    [mState EXCEPT !.source = findSourceProducts(websites, rows),
                   !.comp = findCompetitorProducts(websites, rows)]

\* POST /api/websites with a new url
PostWebsite(is_source) ==
    /\ \E id \in SiteIds :
          /\ dbWebsites[id].status = "unused"
          /\ \A j \in SiteIds : j < id => dbWebsites[j].status # "unused"
          /\ dbWebsites' = WebsiteCreate(dbWebsites, id, is_source)
    /\ mState' = MatchViews(dbWebsites', productTable.rows)
    /\ UNCHANGED <<crawlVars, dbMatches, productTable, siteCrawl, dedup, priceCall>>

\* PUT /api/websites/:id with is_source in the body
PutWebsite(id, is_source) ==
    /\ WebsiteFound(id)
    /\ dbWebsites' = IF is_source THEN setSource(dbWebsites, id) ELSE dbWebsites
    /\ mState' = MatchViews(dbWebsites', productTable.rows)
    /\ UNCHANGED <<crawlVars, dbMatches, productTable, siteCrawl, dedup, priceCall>>

\* POST /api/websites/:id/set-source
PostSetSource(id) ==
    /\ WebsiteFound(id)
    /\ dbWebsites' = setSource(dbWebsites, id)
    /\ mState' = MatchViews(dbWebsites', productTable.rows)
    /\ UNCHANGED <<crawlVars, dbMatches, productTable, siteCrawl, dedup, priceCall>>

\* DELETE /api/websites/:id
DeleteWebsite(id) ==
    /\ WebsiteFound(id)
    /\ dbWebsites' = WebsiteDelete(dbWebsites, id)
    /\ productTable' = [productTable EXCEPT !.rows = ProductDeleteByWebsite(@, id)]
    /\ dbMatches' = CascadeMatches(dbMatches, productTable'.rows)
    /\ mState' = MatchViews(dbWebsites', productTable'.rows)
    /\ UNCHANGED <<crawlVars, siteCrawl, dedup, priceCall>>

\* POST /api/websites/:id/crawl up to await crawlerManager.startCrawl
SiteCrawlBegin(id) ==
    /\ WebsiteFound(id)
    /\ id \notin siteCrawl
    /\ siteCrawl' = siteCrawl \cup {id}
    /\ productTable' = [productTable EXCEPT !.rows = ProductDeleteByWebsite(@, id)]
    /\ dbMatches' = CascadeMatches(dbMatches, productTable'.rows)
    /\ mState' = MatchViews(dbWebsites, productTable'.rows)
    /\ UNCHANGED <<crawlVars, dbWebsites, dedup, priceCall>>

\* startCrawl resolves with the products picks and the handler saves them; on
\* a website deleted meanwhile the INSERT fails its foreign key and the
\* handler's catch takes over
SiteCrawlSave(id, picks) ==
    /\ id \in siteCrawl
    /\ productTable.lastId + Len(picks) <= MaxProductId
    /\ siteCrawl' = siteCrawl \ {id}
    /\ productTable' = IF WebsiteFound(id) /\ Len(picks) > 0
                       THEN SiteProductCreateMany(productTable, id, picks)
                       ELSE productTable
    /\ mState' = MatchViews(dbWebsites, productTable'.rows)
    /\ UNCHANGED <<crawlVars, dbWebsites, dbMatches, dedup, priceCall>>

\* matchingService.createManualMatch
ManualMatch(sourceProductId, competitorProductId) ==
    [source_product_id |-> sourceProductId, competitor_product_id |-> competitorProductId,
     match_type |-> "manual", match_score |-> FOne, is_confirmed |-> TRUE]

\* POST /api/matches/manual with the ids of two products that exist
PostManual(source_product_id, competitor_product_id) ==
    /\ \E p \in productTable.rows : p.id = source_product_id
    /\ \E p \in productTable.rows : p.id = competitor_product_id
    /\ dbMatches' = InsertOrReplaceMatch(dbMatches,
                        ManualMatch(source_product_id, competitor_product_id))
    /\ UNCHANGED <<crawlVars, mState, siteVars, dedup, priceCall>>

\* POST /api/matches/:id/confirm for the row of the pair: ProductMatch.confirm
PostConfirm(source_product_id, competitor_product_id) ==
    /\ \E r \in dbMatches : /\ r.source_product_id = source_product_id
                             /\ r.competitor_product_id = competitor_product_id
    /\ dbMatches' = {IF /\ r.source_product_id = source_product_id
                        /\ r.competitor_product_id = competitor_product_id
                     THEN [r EXCEPT !.is_confirmed = 1] ELSE r : r \in dbMatches}
    /\ UNCHANGED <<crawlVars, mState, siteVars, dedup, priceCall>>

InitSite ==
    /\ InitSiteIdle
    /\ mState = MatchIdle("idle", <<>>, <<>>)
    /\ dbMatches = NoMatches
    /\ InitCrawlIdle
    /\ InitDedupIdle
    /\ InitPriceIdle

\* the options of the runs made here: the route's defaults
SiteRunOptions == {NoOptions}

NextSite ==
    \/ \E is_source \in BOOLEAN : PostWebsite(is_source)
    \/ \E id \in SiteIds, is_source \in BOOLEAN : PutWebsite(id, is_source)
    \/ \E id \in SiteIds : PostSetSource(id)
    \/ \E id \in SiteIds : DeleteWebsite(id)
    \/ \E id \in SiteIds : SiteCrawlBegin(id)
    \/ \E id \in SiteIds, picks \in SortedPicks(MaxCrawlProducts) : SiteCrawlSave(id, picks)
    \/ \E options \in SiteRunOptions : RunMatching(options)
    \/ \E sid \in ProductIds, cid \in ProductIds : PostManual(sid, cid)
    \/ \E sid \in ProductIds, cid \in ProductIds : PostConfirm(sid, cid)

SpecSite == InitSite /\ [][NextSite]_vars

-----------------------------------------------------------------------------
(* SpecDedup: deduplicateProducts called on a raw list, and again on its    *)
(* own result                                                                *)

\* raw products whose sku, product_url and name share their values; one with
\* a price has no image and one with an image has no price
RawPool ==
    {RawProduct(n, p, s, IF p = NullPrice THEN "i.png" ELSE NULL, u) :
        n \in {"a", "b"}, p \in {NullPrice, 5}, s \in {NULL, "a"}, u \in {NULL, "b"}}

RawLists == UNION {[1..k -> RawPool] : k \in 0..MaxRaw}

InitDedup ==
    /\ \E products \in RawLists :
          dedup = [phase |-> "new", products |-> products, result |-> <<>>, again |-> <<>>]
    /\ InitCrawlIdle
    /\ InitMatchIdle
    /\ InitSiteIdle
    /\ InitPriceIdle

\* this.products = this.deduplicateProducts(this.products)
Deduplicate ==
    /\ dedup.phase = "new"
    /\ dedup' = [dedup EXCEPT !.phase = "done",
                              !.result = deduplicateProducts(dedup.products)]
    /\ UNCHANGED <<crawlVars, matchVars, siteVars, priceCall>>

\* deduplicateProducts called on the list it returned
DeduplicateAgain ==
    /\ dedup.phase = "done"
    /\ dedup' = [dedup EXCEPT !.phase = "twice",
                              !.again = deduplicateProducts(dedup.result)]
    /\ UNCHANGED <<crawlVars, matchVars, siteVars, priceCall>>

NextDedup == Deduplicate \/ DeduplicateAgain

SpecDedup == InitDedup /\ [][NextDedup]_vars

-----------------------------------------------------------------------------
(* SpecPrice: parsePrice called on the text of a price element *)

\* the characters of the price texts: digits, both separators, a currency sign
PriceChars == {"0", "1", "5", ",", ".", "$"}

\* price texts longer than MaxPriceLen: thousands groups and both formats
PriceExamples ==
    {<<"1", ",", "2", "3", "4">>,
     <<"1", ",", "2", "3", "4", ",", "5", "6", "7">>,
     <<"1", ",", "2", "3", "4", ",", "5", "6">>,
     <<"1", ".", "2", "3", "4", ",", "5", "6">>,
     <<"$", "1", ",", "2", "3", "4", ".", "5", "6">>}

PriceStrings == UNION {[1..k -> PriceChars] : k \in 0..MaxPriceLen} \cup PriceExamples

InitPrice ==
    /\ \E priceStr \in PriceStrings :
          priceCall = [phase |-> "new", priceStr |-> priceStr, result |-> NullNumber]
    /\ InitCrawlIdle
    /\ InitMatchIdle
    /\ InitSiteIdle
    /\ InitDedupIdle

\* price: this.parsePrice(priceText)
ParsePrice ==
    /\ priceCall.phase = "new"
    /\ priceCall' = [priceCall EXCEPT !.phase = "done",
                                      !.result = parsePrice(priceCall.priceStr)]
    /\ UNCHANGED <<crawlVars, matchVars, siteVars, dedup>>

NextPrice == ParsePrice

SpecPrice == InitPrice /\ [][NextPrice]_vars

-----------------------------------------------------------------------------
(* Spec: the server -- requests, manager, crawlers and tables *)

CrawlTypes == {"auto", "cheerio", "puppeteer"}

\* the Products stored for the website by an earlier crawl
StoredProducts == << ProductRow(Catalog[5]) >>

InitServer(w) ==
    /\ world = w
    /\ puppeteerAvailable \in BOOLEAN
    /\ pc = [t \in Tasks |-> "idle"]
    /\ crawler = [t \in Tasks |-> NoCrawler]
    /\ events = [t \in Tasks |-> <<>>]
    /\ activeJobs = [k \in Keys |-> 0]
    /\ outcome = [t \in Tasks |-> NoOutcome]
    /\ jobs = [t \in Tasks |-> NoJob]
    /\ website \in [Keys -> [status : {"pending"}, crawl_type : CrawlTypes]]
    /\ dbProducts = [k \in Keys |-> StoredProducts]

Init ==
    InitServer("small") /\ InitMatchIdle /\ InitSiteIdle /\ InitDedupIdle /\ InitPriceIdle

Next ==
    \/ \E t \in Tasks : PostCrawl(t, MaxPagesBound)
    \/ \E t \in Tasks, crawlerType \in {"cheerio", "puppeteer"} : DetectResolve(t, crawlerType)
    \/ \E t \in Tasks : GlobalTimeout(t)
    \/ \E k \in Keys : PostCancel(k)
    \/ \E k \in Keys : PostReset(k)
    \/ \E t \in Tasks : CrawlerNext(t)

Spec == Init /\ [][Next]_vars

-----------------------------------------------------------------------------
(* SpecCrawl: one crawler driven directly (new Crawler(url, options).crawl()) *)
(* with close() callable from outside at any time                             *)

InitCrawl ==
    /\ \E w \in Sites, type \in {"cheerio", "puppeteer"}, maxPages \in 1..MaxPagesBound :
         /\ world = w
         /\ LET st == CrawlCalled([c |-> NewCrawler(type, maxPages), ev |-> <<>>]) IN
            /\ crawler = [t \in Tasks |-> IF t = 1 THEN st.c ELSE NoCrawler]
            /\ events = [t \in Tasks |-> IF t = 1 THEN st.ev ELSE <<>>]
    /\ puppeteerAvailable = TRUE
    /\ pc = [t \in Tasks |-> IF t = 1 THEN "direct" ELSE "idle"]
    /\ activeJobs = [k \in Keys |-> 0]
    /\ outcome = [t \in Tasks |-> NoOutcome]
    /\ jobs = [t \in Tasks |-> NoJob]
    /\ website = [k \in Keys |-> [status |-> "pending", crawl_type |-> "auto"]]
    /\ dbProducts = [k \in Keys |-> <<>>]
    /\ InitMatchIdle
    /\ InitSiteIdle
    /\ InitDedupIdle
    /\ InitPriceIdle

\* crawler.close() called by the owner of the crawler
DirectClose(t) ==
    /\ pc[t] = "direct"
    /\ Running(crawler[t])
    /\ ~crawler[t].closeInvoked
    /\ crawler' = [crawler EXCEPT ![t] = CloseCrawler(@)]
    /\ UNCHANGED <<world, puppeteerAvailable, pc, events, activeJobs, outcome, jobs,
                   website, dbProducts, matchVars, siteVars, dedup, priceCall>>

NextCrawl ==
    \/ \E t \in Tasks : CrawlerNext(t)
    \/ \E t \in Tasks : DirectClose(t)

SpecCrawl == InitCrawl /\ [][NextCrawl]_vars

\* every pending fetch, sleep or browser call settles, one way or the other:
\* WF_vars(CrawlerNext(t)) written out, CrawlerNext(t) being enabled exactly
\* while crawl() of t is suspended at an await
CrawlFair ==
    \A t \in Tasks :
        []<>(~Running(crawler[t])) \/ []<><<CrawlerNext(t)>>_vars

\* SpecCrawl where no awaited promise stays pending forever
FairSpecCrawl == SpecCrawl /\ CrawlFair

ServerFair == \A t \in Tasks : WF_vars(GlobalTimeout(t))

\* Spec with the one fairness the code guarantees: an armed setTimeout fires
FairSpec == Spec /\ ServerFair

-----------------------------------------------------------------------------
(* Observations used by the properties *)

\* request t has a traversal in progress that nobody asked to stop
TraversalRunning(t) == Running(crawler[t]) /\ ~crawler[t].closeInvoked

\* pages whose fetch was counted as failed, read off the progress events
FailedFetches(t) ==
    Cardinality({i \in 1..Len(events[t]) : events[t][i].message = "error crawling"})

\* the step starts a page fetch for request t
FetchStarted(t) ==
    /\ crawler'[t].pc = "fetch"
    /\ crawler[t].pc # "fetch" \/ crawler'[t].url # crawler[t].url

\* the step is the one in which crawl() of request t returns
CrawlReturnsNow(t) == crawler[t].pc # "returned" /\ crawler'[t].pc = "returned"

\* the step is the one in which startCrawl of request t settles
StartCrawlSettlesNow(t) == pc[t] = "racing" /\ pc'[t] = "done"

RECURSIVE ProductsOfPages(_, _)
\* the products of the successfully processed pages, in the order processed
ProductsOfPages(w, ev) ==
    IF ev = <<>> THEN <<>>
    ELSE (IF Head(ev).status = "crawling" THEN PageOf(w, Head(ev).url).products ELSE <<>>)
         \o ProductsOfPages(w, Tail(ev))

ProductRows(products) == [i \in 1..Len(products) |-> ProductRow(products[i])]

-----------------------------------------------------------------------------
(* Properties *)

\* C1: for one website key at most one crawl traversal runs at any time: a
\* start request arriving while an earlier start is active (also while that
\* one still awaits strategy detection) does not start a second traversal.
C1_AtMostOneTraversal ==
    \A k \in Keys :
        Cardinality({t \in Tasks : KeyOf(t) = k /\ TraversalRunning(t)}) <= 1

\* C2: once close() was invoked on a running crawl (either strategy) no page
\* fetch is started any more and the final progress event is 'cancelled'.
C2_CloseStopsCrawl ==
    [][\A t \in Tasks :
          crawler[t].closeInvoked =>
              /\ ~FetchStarted(t)
              /\ CrawlReturnsNow(t) => Last(events'[t]).status = "cancelled"]_vars

\* C3: once the failed page fetches reach the failure budget no further page
\* is fetched (either strategy), and a crawl that ends through the budget
\* path has failedPages >= 5.
C3_FailureBudgetStopsCrawl ==
    \A t \in Tasks :
        /\ FailedFetches(t) >= maxFailedPages => crawler[t].pc \notin {"fetch", "links"}
        /\ (\E i \in 1..Len(events[t]) : events[t][i].message = "too many failed pages")
              => crawler[t].failedPages >= maxFailedPages

\* C4: pagesCrawled <= maxPages in every state of a crawl (either strategy)
\* and in every progress event the crawl emitted.
C4_PagesWithinBudget ==
    \A t \in Tasks :
        crawler[t].type # "none" =>
            /\ crawler[t].pagesCrawled <= crawler[t].maxPages
            /\ \A i \in 1..Len(events[t]) : events[t][i].pagesCrawled <= crawler[t].maxPages

\* a crawl stopped by the page budget with URLs still queued
C4_Witness ==
    \E t \in Tasks :
        /\ crawler[t].pc = "returned"
        /\ crawler[t].maxPages >= 2
        /\ crawler[t].pagesCrawled = crawler[t].maxPages
        /\ crawler[t].urlsToVisit # <<>>

\* C5: page-level errors never fail a static crawl: crawl() does not raise,
\* returns the deduplicated products of the pages that succeeded, and its
\* last progress event is 'completed' or 'cancelled'.
C5_PageErrorsDoNotFailCrawl ==
    \A t \in Tasks :
        crawler[t].type = "cheerio" =>
            /\ crawler[t].pc # "threw"
            /\ crawler[t].pc = "returned" =>
                  /\ crawler[t].products =
                        deduplicateProducts(ProductsOfPages(world, events[t]))
                  /\ Last(events[t]).status \in {"completed", "cancelled"}

\* a static crawl that returned products although some of its pages failed
C5_Witness ==
    \E t \in Tasks :
        /\ crawler[t].type = "cheerio" /\ crawler[t].pc = "returned"
        /\ crawler[t].failedPages >= 2
        /\ crawler[t].pagesCrawled >= 1
        /\ Len(crawler[t].products) >= 1

\* C6: when the global timer expires before crawl() settles, startCrawl
\* invokes close() and settles with the timeout error, which no other way of
\* settling produces; no product list reaches the caller.
C6_TimeoutOutcome ==
    [][\A t \in Tasks :
          StartCrawlSettlesNow(t) =>
              IF Settled(crawler'[t])
              THEN outcome'[t].kind \in {"success", "error"}
                   /\ outcome'[t].message # TimeoutMessage
              ELSE /\ outcome'[t] = [NoOutcome EXCEPT !.kind = "error",
                                                      !.message = TimeoutMessage]
                   /\ crawler'[t].closeInvoked
                   /\ jobs'[t].status = "failed"
                   /\ jobs'[t].error_message = TimeoutMessage
                   /\ dbProducts' = dbProducts]_vars

\* a job timed out after its crawler had already extracted products
C6_Witness ==
    \E t \in Tasks :
        /\ outcome[t].kind = "error" /\ outcome[t].message = TimeoutMessage
        /\ Len(crawler[t].products) >= 1
        /\ dbProducts[KeyOf(t)] = <<>>

\* C7: when the race in startCrawl settles (returned, raised or timed out)
\* activeJobs has no entry for the key; every registered job is eventually
\* removed, so a later start is not blocked.
C7_RegistryClearedOnSettle ==
    /\ [][\A t \in Tasks :
             StartCrawlSettlesNow(t) => ~MapHas(activeJobs', KeyOf(t))]_vars
    /\ \A t \in Tasks : (activeJobs[KeyOf(t)] = t) ~> (activeJobs[KeyOf(t)] # t)

\* a later request was accepted after an earlier job failed or timed out
C7_Witness ==
    \E s, t \in Tasks :
        /\ s < t
        /\ pc[s] = "done" /\ outcome[s].kind = "error"
        /\ pc[t] = "racing" /\ activeJobs[KeyOf(t)] = t

\* C8: a CrawlJob row leaves 'running' for a terminal status once and its
\* status is never changed afterwards.
C8_JobFinalizedOnce ==
    [][\A t \in Tasks :
          jobs[t].status \in {"completed", "failed"} =>
              jobs'[t].status = jobs[t].status]_vars

\* C9: after a crawl finished successfully and saved its products, the
\* website's stored products are exactly the list that crawl returned.
C9_ReplacementSnapshot ==
    [][\A t \in Tasks :
          (StartCrawlSettlesNow(t) /\ outcome'[t].kind = "success") =>
              dbProducts'[KeyOf(t)] = ProductRows(outcome'[t].products)]_vars

\* C10: in the output of a runMatching call with allowDuplicateMatches false
\* no competitor product id is the competitor side of more than one match,
\* whatever the products and however the scores tie.
C10_UniqueCompetitors ==
    (mState.phase = "ran" /\ ~mState.options.allowDuplicateMatches) =>
        \A i, j \in 1..Len(mState.matches) :
            mState.matches[i].competitor_product_id =
                mState.matches[j].competitor_product_id => i = j

\* a run without duplicates in which two source products admitted the same
\* competitor with equal scores and the earlier one got it
C10_Witness ==
    /\ mState.phase = "ran" /\ ~mState.options.allowDuplicateMatches
    /\ \E i, j \in 1..Len(mState.source), c \in 1..Len(mState.comp) :
          LET mi == MatchOf(mState.source[i], mState.comp[c])
              mj == MatchOf(mState.source[j], mState.comp[c])
          IN  /\ i < j /\ Admitted(mi) /\ Admitted(mj)
              /\ mi.match_score = mj.match_score
              /\ mi \in SeqRange(mState.matches)
              /\ mj \notin SeqRange(mState.matches)

\* C11: in the output of every runMatching call each source product is the
\* source side of at most maxMatchesPerProduct matches (of at most 5 when the
\* option is absent), with allowDuplicateMatches set or not.
C11_MatchesPerSourceCapped ==
    mState.phase = "ran" =>
        \A s \in 1..Len(mState.source) :
            Cardinality({i \in 1..Len(mState.matches) :
                            mState.matches[i].source_product_id = mState.source[s].id})
                <= (IF mState.options.maxMatchesPerProduct = 0 THEN DefaultMaxMatches
                    ELSE mState.options.maxMatchesPerProduct)

\* a run with duplicates allowed and an explicit cap that cut a source
\* product's admitted candidates down to the cap
C11_Witness ==
    /\ mState.phase = "ran" /\ mState.options.allowDuplicateMatches
    /\ mState.options.maxMatchesPerProduct > 0
    /\ \E s \in 1..Len(mState.source) :
          /\ Len(findMatchesForProduct(mState.source[s], mState.comp))
                > mState.options.maxMatchesPerProduct
          /\ Cardinality({i \in 1..Len(mState.matches) :
                             mState.matches[i].source_product_id = mState.source[s].id})
                = mState.options.maxMatchesPerProduct

\* a run without the option that cut a source product's admitted candidates
\* down to the default
C11_WitnessDefault ==
    /\ mState.phase = "ran" /\ mState.options.maxMatchesPerProduct = 0
    /\ \E s \in 1..Len(mState.source) :
          /\ Len(findMatchesForProduct(mState.source[s], mState.comp)) > DefaultMaxMatches
          /\ Cardinality({i \in 1..Len(mState.matches) :
                             mState.matches[i].source_product_id = mState.source[s].id})
                = DefaultMaxMatches

\* C12: in the output of every runMatching(options) call each match whose
\* match_type is not sku_exact has match_score >= options.minSimilarity, the
\* value passed for that run.
C12_ScoreMeetsRunThreshold ==
    mState.phase = "ran" =>
        \A i \in 1..Len(mState.matches) :
            mState.matches[i].match_type # "sku_exact" =>
                FLeq(mState.options.minSimilarity, mState.matches[i].match_score)

\* the match types of an automatic match
AutoMatchTypes == {"sku_exact", "sku_partial", "name_exact", "name_fuzzy"}

\* C13: every match runMatching records and persists has match_type sku_exact,
\* sku_partial, name_exact or name_fuzzy; a pair the scorer types 'none' is
\* never admitted, also when its score reaches minSimilarity through the
\* price bonus.
C13_MatchTypesQualified ==
    /\ \A i \in 1..Len(mState.matches) : mState.matches[i].match_type \in AutoMatchTypes
    /\ \A r \in dbMatches : r.match_type \in AutoMatchTypes

\* C15: in the output of every runMatching call a match has is_confirmed
\* exactly when its match_type is sku_exact.
C15_ConfirmedIffSkuExact ==
    mState.phase = "ran" =>
        \A i \in 1..Len(mState.matches) :
            mState.matches[i].is_confirmed <=> mState.matches[i].match_type = "sku_exact"

\* a run whose output holds a confirmed sku_exact match and an unconfirmed
\* match of another type
C15_Witness ==
    /\ mState.phase = "ran"
    /\ \E i, j \in 1..Len(mState.matches) :
          /\ mState.matches[i].match_type = "sku_exact" /\ mState.matches[i].is_confirmed
          /\ mState.matches[j].match_type # "sku_exact" /\ ~mState.matches[j].is_confirmed

\* both SKUs are non-empty and equal after lower-casing and trimming
SkusEqual(sourceProduct, competitorProduct) ==
    /\ sourceProduct.sku # <<>> /\ competitorProduct.sku # <<>>
    /\ trim(toLowerCase(sourceProduct.sku)) = trim(toLowerCase(competitorProduct.sku))

\* the matches of the run's output for the pair
RecordedFor(sourceProduct, competitorProduct) ==
    {i \in 1..Len(mState.matches) :
        /\ mState.matches[i].source_product_id = sourceProduct.id
        /\ mState.matches[i].competitor_product_id = competitorProduct.id}

\* the matches of the run's output with the product on the source side
RecordedForSource(sourceProduct) ==
    {i \in 1..Len(mState.matches) :
        mState.matches[i].source_product_id = sourceProduct.id}

\* C20 as stated: for a source and a competitor product whose SKUs are both
\* non-empty and equal after trimming and lower-casing, calculateSimilarity
\* returns {1.0, sku_exact} whatever the names and prices, and every
\* runMatching call records the pair as a confirmed match.
C20_SkuExactAlwaysRecorded ==
    \A s \in 1..Len(mState.source), c \in 1..Len(mState.comp) :
        SkusEqual(mState.source[s], mState.comp[c]) =>
            /\ MatchOf(mState.source[s], mState.comp[c]).match_score = FOne
            /\ MatchOf(mState.source[s], mState.comp[c]).match_type = "sku_exact"
            /\ mState.phase = "ran" =>
                  \E i \in RecordedFor(mState.source[s], mState.comp[c]) :
                      mState.matches[i].is_confirmed

\* C20, amended: for such a pair calculateSimilarity returns {1.0, sku_exact}
\* whatever the names and prices and findMatchesForProduct admits it; a
\* runMatching call records it as a confirmed sku_exact match of score 1.0
\* unless the competitor was already assigned to an earlier source product
\* (allowDuplicateMatches off) or the source product already has
\* maxMatchesPerProduct matches.
C20_SkuExactScoresOne ==
    \A s \in 1..Len(mState.source), c \in 1..Len(mState.comp) :
        LET sourceProduct == mState.source[s]
            competitor == mState.comp[c]
            cap == IF mState.options.maxMatchesPerProduct = 0 THEN DefaultMaxMatches
                   ELSE mState.options.maxMatchesPerProduct
        IN  SkusEqual(sourceProduct, competitor) =>
              /\ MatchOf(sourceProduct, competitor).match_score = FOne
              /\ MatchOf(sourceProduct, competitor).match_type = "sku_exact"
              /\ MatchOf(sourceProduct, competitor)
                    \in SeqRange(findMatchesForProduct(sourceProduct, mState.comp))
              /\ mState.phase = "ran" =>
                    /\ \A i \in RecordedFor(sourceProduct, competitor) :
                          mState.matches[i] = MatchOf(sourceProduct, competitor)
                          /\ mState.matches[i].is_confirmed
                    /\ \/ RecordedFor(sourceProduct, competitor) # {}
                       \/ Cardinality(RecordedForSource(sourceProduct)) = cap
                       \/ /\ ~mState.options.allowDuplicateMatches
                          /\ \E i \in 1..Len(mState.matches) :
                                /\ mState.matches[i].competitor_product_id = competitor.id
                                /\ mState.matches[i].source_product_id # sourceProduct.id

\* a run recorded, confirmed, a pair whose SKUs differ as written and whose
\* names and prices differ
C20_Witness ==
    /\ mState.phase = "ran"
    /\ \E s \in 1..Len(mState.source), c \in 1..Len(mState.comp) :
          /\ SkusEqual(mState.source[s], mState.comp[c])
          /\ mState.source[s].sku # mState.comp[c].sku
          /\ mState.source[s].name # mState.comp[c].name
          /\ mState.source[s].price # mState.comp[c].price
          /\ \E i \in RecordedFor(mState.source[s], mState.comp[c]) :
                mState.matches[i].is_confirmed

\* C14: with zero source products or zero competitor products runMatching
\* raises the named configuration error and product_matches is left exactly
\* as it was.
C14_FailsFastWithoutWrites ==
    [][\A options \in MatchOptions :
          (RunMatching(options) /\ (Len(mState.source) = 0 \/ Len(mState.comp) = 0)) =>
              /\ mState'.phase = "threw"
              /\ mState'.error = IF Len(mState.source) = 0 THEN NoSourceError
                                 ELSE NoCompetitorError
              /\ mState'.matches = <<>>
              /\ dbMatches' = dbMatches]_vars

\* a run failed for want of competitor products while product_matches held
\* rows
C14_Witness ==
    /\ mState.phase = "threw" /\ mState.error = NoCompetitorError
    /\ Len(mState.source) > 0 /\ Len(mState.comp) = 0
    /\ dbMatches # {}

\* C16: after any sequence of website operations at most one website has
\* is_source = 1.
C16_AtMostOneSource ==
    Cardinality({w \in SiteIds : WebsiteFound(w) /\ dbWebsites[w].is_source = 1}) <= 1

\* the website a product row belongs to
WebsiteOfProduct(productId) ==
    dbWebsites[(CHOOSE p \in productTable.rows : p.id = productId).website_id]

\* C17: in every reachable state each persisted match has its source product
\* on the website that is the source and its competitor product on a website
\* that is a competitor.
C17_MatchRolesHold ==
    \A r \in dbMatches :
        /\ WebsiteOfProduct(r.source_product_id).is_source = 1
        /\ WebsiteOfProduct(r.competitor_product_id).is_source = 0

\* C18: deduplicateProducts is idempotent: applied to its own result it
\* returns the same records in the same order, also when a backfilled value
\* equals another record's identity key.
C18_DedupIdempotent ==
    dedup.phase = "twice" => dedup.again = dedup.result

\* a call backfilled the sku of a record that was keyed by its product_url or
\* name, with a value equal to that key, and kept another record besides
C18_Witness ==
    /\ dedup.phase = "twice"
    /\ Len(dedup.result) > 1
    /\ \E i \in 1..Len(dedup.result), j \in 1..Len(dedup.products) :
          /\ ProductKey(dedup.products[j]) = ProductKey(dedup.result[i])
          /\ \A k \in 1..(j - 1) :
                ProductKey(dedup.products[k]) # ProductKey(dedup.products[j])
          /\ dedup.products[j].sku = NULL
          /\ dedup.result[i].sku # NULL

\* the fields of a raw product that hold a value
Populated(product) ==
    {f \in {"name", "sku", "image_url", "product_url"} : ~StrFalsy(product[f])}
        \cup (IF PriceFalsy(product.price) THEN {} ELSE {"price"})

\* C19: for two raw records sharing an identity key the record output for
\* that key has every field populated that either of the two had populated
\* (name, price, sku, image_url, product_url).
C19_MergeKeepsPopulatedFields ==
    (/\ dedup.phase = "done" /\ Len(dedup.products) = 2
     /\ ProductKey(dedup.products[1]) = ProductKey(dedup.products[2])) =>
        /\ Len(dedup.result) = 1
        /\ Populated(dedup.products[1]) \cup Populated(dedup.products[2])
              \subseteq Populated(dedup.result[1])

\* C21: when close() is invoked while a page fetch/render is in flight the
\* suspension is aborted (either strategy): the page in flight is not
\* processed after the cancel -- no page is counted and no product appended.
C21_CancelAbortsInFlight ==
    [][\A t \in Tasks :
          (crawler[t].closeInvoked /\ crawler[t].pc \in {"fetch", "links"}) =>
              /\ crawler'[t].pagesCrawled = crawler[t].pagesCrawled
              /\ Settled(crawler'[t]) \/ crawler'[t].products = crawler[t].products]_vars

\* C22: whenever PuppeteerCrawler.crawl() has settled (completed, after a
\* close() from a cancel or the manager's timeout, after a failure in init(),
\* or through an exception) the browser it launched is closed (browser and
\* page null), and it is not reopened afterwards.
C22_BrowserReleasedOnSettle ==
    /\ [](\A t \in Tasks :
            (crawler[t].type = "puppeteer" /\ Settled(crawler[t])) => ~crawler[t].browser)
    /\ [][\A t \in Tasks :
             (crawler[t].type = "puppeteer" /\ Settled(crawler[t])) =>
                 crawler'[t].browser = crawler[t].browser]_vars

\* crawl() returned after rendering pages in the browser it launched, although
\* a close() from outside had arrived while the launch was still in flight
C22_Witness ==
    \E t \in Tasks :
        /\ crawler[t].type = "puppeteer" /\ crawler[t].pc = "returned"
        /\ crawler[t].closeInvoked
        /\ crawler[t].pagesCrawled >= 1
        /\ ~crawler[t].browser

\* C23: a registry entry is removed only on behalf of the job that inserted
\* it: when startCrawl of a request settles while the key's entry belongs to
\* another (later registered) job, that entry stays, so getActiveJob keeps
\* returning the running job.
C23_SettleKeepsOtherJobsEntry ==
    [][\A t \in Tasks :
          (StartCrawlSettlesNow(t) /\ MapHas(activeJobs, KeyOf(t))
                                   /\ activeJobs[KeyOf(t)] # t) =>
              activeJobs'[KeyOf(t)] = activeJobs[KeyOf(t)]]_vars

\* the URLs of the pages whose fetch has settled, in order, read off the
\* progress events (a 'crawling' or a page 'error' event names its URL)
PageUrls(ev) ==
    LET pages == SelectSeq(ev, LAMBDA e : e.url # 0) IN
    [i \in 1..Len(pages) |-> pages[i].url]

\* the URLs fetched so far, the one in flight included
FetchedUrls(t) ==
    PageUrls(events[t]) \o
        (IF crawler[t].pc \in {"fetch", "links"} THEN <<crawler[t].url>> ELSE <<>>)

NoRepeats(s) == \A i, j \in 1..Len(s) : s[i] = s[j] => i = j

\* C24: within one crawl no URL is fetched more than once, and in every
\* reachable state the frontier holds no URL of the visited set and no URL
\* twice.
C24_NoRefetchNoDuplicateFrontier ==
    \A t \in Tasks :
        /\ NoRepeats(FetchedUrls(t))
        /\ NoRepeats(crawler[t].urlsToVisit)
        /\ SeqRange(crawler[t].urlsToVisit) \cap crawler[t].visitedUrls = {}

\* a crawl fetched several pages, the last of which linked back to visited
\* pages and to a queued one, and URLs are still queued
C24_Witness ==
    \E t \in Tasks :
        /\ crawler[t].pc = "sleep"
        /\ Len(FetchedUrls(t)) >= 3
        /\ crawler[t].urlsToVisit # <<>>
        /\ LET page == PageOf(world, crawler[t].url)
               hrefs == SeqRange(page.pagination) \cup SeqRange(page.category)
           IN  /\ hrefs \cap (crawler[t].visitedUrls \ {crawler[t].url}) # {}
               /\ hrefs \cap SeqRange(crawler[t].urlsToVisit) # {}

IsPrefix(s, r) == Len(s) <= Len(r) /\ SubSeq(r, 1, Len(s)) = s

\* C25: within one crawl pages are fetched in FIFO order of the frontier: the
\* start URL first; every fetch takes the URL at the head of the frontier and
\* every discovered link joins at its tail, so of two fetched URLs the one
\* enqueued earlier is fetched earlier.
C25_FifoOrder ==
    /\ [](\A t \in Tasks :
            FetchedUrls(t) # <<>> => Head(FetchedUrls(t)) = BaseUrl)
    /\ [][\A t \in Tasks :
             /\ (FetchStarted(t) /\ PageUrls(events[t]) # <<>>) =>
                    /\ crawler[t].urlsToVisit # <<>>
                    /\ crawler'[t].url = Head(crawler[t].urlsToVisit)
                    /\ crawler'[t].urlsToVisit = Tail(crawler[t].urlsToVisit)
             /\ (~FetchStarted(t) /\ Running(crawler'[t])) =>
                    IsPrefix(crawler[t].urlsToVisit, crawler'[t].urlsToVisit)]_vars

\* pages that were found while other pages waited in the frontier were
\* fetched after those: the fourth page of the tree-shaped site is in flight
\* (the third page failed, so its links were not enqueued)
C25_Witness ==
    \E t \in Tasks :
        /\ world = "tree"
        /\ crawler[t].pc = "fetch"
        /\ FetchedUrls(t) = <<1, 2, 3, 4>>
        /\ crawler[t].urlsToVisit = <<5>>

\* C27: every URL a crawl fetches, has visited or holds in its frontier has
\* the hostname of the crawl's start URL: links to other hosts found on a
\* page are never enqueued.
C27_SameHostOnly ==
    \A t \in Tasks :
        \A u \in SeqRange(FetchedUrls(t)) \cup SeqRange(crawler[t].urlsToVisit)
                    \cup crawler[t].visitedUrls :
            hostname(u) = hostname(BaseUrl)

\* a page carrying links to another host was processed and links of it wait
\* in the frontier
C27_Witness ==
    \E t \in Tasks :
        /\ crawler[t].pc = "sleep"
        /\ crawler[t].urlsToVisit # <<>>
        /\ LET page == PageOf(world, crawler[t].url) IN
           /\ \E i \in 1..Len(page.pagination) : ~isSameDomain(page.pagination[i])
           /\ \E i \in 1..Len(page.category) : ~isSameDomain(page.category[i])
           /\ SeqRange(crawler[t].urlsToVisit) \cap SeqRange(page.category) # {}

\* the step in which request t's crawl finishes processing a page: the
\* page's 'crawling' event is emitted
PageProcessedNow(t) ==
    /\ Len(events'[t]) > Len(events[t])
    /\ events'[t][Len(events[t]) + 1].status = "crawling"

\* C26: for every fetched page, with either strategy, link discovery yields at
\* most 30 links for enqueueing (pagination and listing links together): one
\* page adds at most 30 URLs to the frontier.
C26_LinksPerPageCapped ==
    [][\A t \in Tasks :
          PageProcessedNow(t) =>
              Len(crawler'[t].urlsToVisit) - Len(crawler[t].urlsToVisit)
                  <= CategoryLinkCap]_vars

\* the step in which the static crawl of request t counts a page as failed:
\* the catch block emits the page's 'error' event
PageFailedNow(t) ==
    /\ crawler[t].type = "cheerio"
    /\ Len(events'[t]) > Len(events[t])
    /\ events'[t][Len(events[t]) + 1].message = "error crawling"

\* C28: a page of a static crawl that is counted as failed contributes nothing
\* else: from the moment it was popped -- while its fetch is in flight and
\* when the catch block has run -- the frontier has no new URL, the product
\* list no new product and pagesCrawled is unchanged; failedPages is one more.
C28_FailedPageContributesNothing ==
    [][\A t \in Tasks :
          /\ (crawler[t].type = "cheerio" /\ crawler[t].pc = "fetch"
                                          /\ crawler'[t].url = crawler[t].url
                                          /\ crawler'[t].pc = "fetch") =>
                 /\ crawler'[t].products = crawler[t].products
                 /\ crawler'[t].urlsToVisit = crawler[t].urlsToVisit
                 /\ crawler'[t].pagesCrawled = crawler[t].pagesCrawled
                 /\ crawler'[t].failedPages = crawler[t].failedPages
          /\ PageFailedNow(t) =>
                 LET e == events'[t][Len(events[t]) + 1] IN
                 /\ e.status = "error" /\ e.url = crawler[t].url
                 /\ e.pagesCrawled = crawler[t].pagesCrawled
                 /\ e.productsFound = Len(crawler[t].products)
                 /\ crawler'[t].pagesCrawled = crawler[t].pagesCrawled
                 /\ crawler'[t].failedPages = crawler[t].failedPages + 1
                 /\ SeqRange(crawler'[t].urlsToVisit) \subseteq SeqRange(crawler[t].urlsToVisit)
                 /\ \/ crawler'[t].products = crawler[t].products
                    \/ /\ crawler'[t].pc = "returned"
                       /\ crawler'[t].products = deduplicateProducts(crawler[t].products)]_vars

\* a static crawl with products collected and URLs queued in which a page
\* that carries products and links has failed
C28_Witness ==
    \E t \in Tasks :
        /\ crawler[t].type = "cheerio" /\ Running(crawler[t])
        /\ crawler[t].failedPages >= 1
        /\ crawler[t].products # <<>>
        /\ crawler[t].urlsToVisit # <<>>
        /\ \E i \in 1..Len(events[t]) :
              /\ events[t][i].message = "error crawling"
              /\ PageOf(world, events[t][i].url).products # <<>>
              /\ findCategoryLinks(PageOf(world, events[t][i].url)) # <<>>
              /\ events[t][i].productsFound >= 1

\* the 'crawling' events of a crawl, in the order emitted
CrawlingEvents(ev) == SelectSeq(ev, LAMBDA e : e.status = "crawling")

\* C29: a 'crawling' event with pagesCrawled = n is emitted only after the
\* products of the n-th successfully fetched page were appended and its links
\* enqueued; the pagesCrawled values of a crawl's 'crawling' events are
\* 1, 2, 3, ... without gap or repetition, and the first event is 'starting'.
C29_ProgressAfterProcessing ==
    /\ [](\A t \in Tasks :
            /\ events[t] # <<>> => events[t][1].status = "starting"
            /\ \A n \in 1..Len(CrawlingEvents(events[t])) :
                  CrawlingEvents(events[t])[n].pagesCrawled = n)
    /\ [][\A t \in Tasks :
             PageProcessedNow(t) =>
                 LET e == events'[t][Len(events[t]) + 1]
                     page == PageOf(world, e.url)
                     found == crawler'[t].products
                     links == IF crawler[t].type = "cheerio"
                              THEN findPaginationLinks(page) \o findCategoryLinks(page)
                              ELSE findLinks(page)
                 IN  /\ e.pagesCrawled = crawler'[t].pagesCrawled
                     /\ e.productsFound = Len(found)
                     /\ Len(found) >= Len(page.products)
                     /\ SubSeq(found, Len(found) - Len(page.products) + 1, Len(found))
                           = page.products
                     /\ SeqRange(links) \subseteq
                           crawler'[t].visitedUrls \cup SeqRange(crawler'[t].urlsToVisit)]_vars

\* a crawl reported its third page, after a page in between had failed, with
\* products of the page appended and links of it waiting in the frontier
C29_Witness ==
    \E t \in Tasks :
        /\ crawler[t].pc = "sleep"
        /\ Last(events[t]).status = "crawling" /\ Last(events[t]).pagesCrawled = 3
        /\ \E i \in 1..Len(events[t]) : events[t][i].message = "error crawling"
        /\ PageOf(world, crawler[t].url).products # <<>>
        /\ crawler[t].urlsToVisit # <<>>

\* C30: between any two consecutive page fetches of one crawl the
\* inter-request delay is slept: a fetch other than the crawl's first is
\* started only by the step in which the sleep ends, after a processed page
\* and equally after a failed one.
C30_SleepBetweenFetches ==
    [][\A t \in Tasks :
          (FetchStarted(t) /\ PageUrls(events[t]) # <<>>) =>
              crawler[t].pc = "sleep"]_vars

\* C39: for the static strategy the number of page fetch attempts of one
\* crawl (successful plus failed, the one in flight included) is at most
\* maxPages + maxFailedPages - 1, for any link graph and any failures.
C39_FetchAttemptsBounded ==
    \A t \in Tasks :
        crawler[t].type = "cheerio" =>
            Len(FetchedUrls(t)) <= crawler[t].maxPages + maxFailedPages - 1

\* a static crawl that used the whole budget: maxPages pages processed and
\* maxFailedPages - 1 fetches failed
C39_Witness ==
    \E t \in Tasks :
        /\ crawler[t].type = "cheerio"
        /\ crawler[t].pc = "returned"
        /\ crawler[t].maxPages >= 2
        /\ crawler[t].failedPages = maxFailedPages - 1
        /\ Len(FetchedUrls(t)) = crawler[t].maxPages + maxFailedPages - 1

\* C38: every crawl terminates: with either strategy, on any link graph and
\* under any pattern of fetch successes and failures, if every awaited fetch
\* and sleep settles then crawl() settles, and a crawl that entered its loop
\* (it emitted 'starting') returns after emitting its final progress event.
C38_CrawlTerminates ==
    \A t \in Tasks :
        /\ Running(crawler[t]) ~> Settled(crawler[t])
        /\ (crawler[t].type # "none" /\ events[t] # <<>>)
              ~> (crawler[t].pc = "returned" /\ Last(events[t]).message = "final")

\* a crawl on a graph where every page links to new pages returned with its
\* final event after successes and failures, URLs still waiting
C38_Witness ==
    \E t \in Tasks :
        /\ world \in {"full", "tree"}
        /\ crawler[t].pc = "returned"
        /\ Last(events[t]).message = "final"
        /\ crawler[t].pagesCrawled >= 2
        /\ FailedFetches(t) >= 1
        /\ crawler[t].urlsToVisit # <<>>

\* C33: after POST /:id/crawl/cancel the website's stored status is
\* 'cancelled' and stays so, and no product is saved for the website, until a
\* new crawl is started (or the status is reset): the later settling of the
\* cancelled crawl's promise neither writes 'completed' or 'failed' nor
\* inserts products.
C33_CancelledStaysCancelled ==
    [][\A k \in Keys :
          website[k].status = "cancelled" =>
              /\ website'[k].status \in {"cancelled", "crawling", "pending"}
              /\ website'[k].status = "cancelled" => dbProducts'[k] = dbProducts[k]]_vars

\* C34: once a CrawlJob is finalized (status 'completed' or 'failed', also
\* through the global timeout, a user cancel or a reset) no further progress
\* is applied to it: onProgress is not called for it any more (no
\* 'crawl-progress' event) and its crawled_pages is not updated.
C34_NoProgressAfterFinalized ==
    [][\A t \in Tasks :
          jobs[t].status \in {"completed", "failed"} =>
              /\ events'[t] = events[t]
              /\ jobs'[t].crawled_pages = jobs[t].crawled_pages]_vars

\* C35: a crawl that does not end successfully (global timeout, crawl-fatal
\* error or user cancel) leaves the website's stored Products unchanged: as
\* long as no crawl of the website has succeeded, a job marked failed leaves
\* the products that were stored before the crawl was started in place.
C35_FailedCrawlKeepsProducts ==
    \A t \in Tasks :
        (jobs[t].status = "failed" /\ \A s \in Tasks : outcome[s].kind # "success")
            => dbProducts[KeyOf(t)] = StoredProducts

\* the limit a run applies per source product
MatchLimit(options) ==
    IF options.maxMatchesPerProduct = 0 THEN DefaultMaxMatches
    ELSE options.maxMatchesPerProduct

\* competitor c comes before competitor d in the ranking of source product s:
\* higher score first, equal scores in iteration order
RanksBefore(s, comp, c, d) ==
    LET x == MatchOf(s, comp[c]).match_score
        y == MatchOf(s, comp[d]).match_score
    IN  IF FLeq(x, y) /\ FLeq(y, x) THEN c < d ELSE FLeq(y, x)

\* the competitors (indices) the greedy reference gives source product s when
\* the competitors in taken are gone: the first limit of its admitted
\* candidates in ranking order
GreedyPicks(s, comp, taken, limit) ==
    LET cand == {c \in 1..Len(comp) : c \notin taken /\ Admitted(MatchOf(s, comp[c]))} IN
    {c \in cand : Cardinality({d \in cand : RanksBefore(s, comp, d, c)}) < limit}

RECURSIVE GreedyTaken(_, _, _, _)
\* the competitors assigned to the source products before the i-th
GreedyTaken(source, comp, limit, i) ==
    IF i <= 1 THEN {}
    ELSE LET before == GreedyTaken(source, comp, limit, i - 1) IN
         before \cup GreedyPicks(source[i - 1], comp, before, limit)

\* the reference assignment of source product i as a list in ranking order
GreedyList(source, comp, limit, i) ==
    LET picks == GreedyPicks(source[i], comp, GreedyTaken(source, comp, limit, i), limit) IN
    [k \in 1..Cardinality(picks) |->
        MatchOf(source[i],
                comp[CHOOSE c \in picks :
                        Cardinality({d \in picks : RanksBefore(source[i], comp, d, c)}) = k - 1])]

RECURSIVE GreedyReference(_, _, _, _)
\* the reference assignment of the first n source products, concatenated
GreedyReference(source, comp, limit, n) ==
    IF n = 0 THEN <<>>
    ELSE GreedyReference(source, comp, limit, n - 1) \o GreedyList(source, comp, limit, n)

\* C31: with allowDuplicateMatches false the matches runMatching returns are
\* the greedy reference assignment: source products in iteration order, each
\* given the first maxMatchesPerProduct of its admitted candidates by
\* descending score (ties in competitor iteration order) among the
\* competitors not assigned to an earlier source product.
C31_GreedyAssignment ==
    (mState.phase = "ran" /\ ~mState.options.allowDuplicateMatches) =>
        mState.matches = GreedyReference(mState.source, mState.comp,
                                         MatchLimit(mState.options), Len(mState.source))

\* a run with limit 1 where both source products rank the same competitor
\* first: the earlier one has it, the later one has its next best, which is
\* not its first admitted candidate in iteration order
C31_Witness ==
    /\ mState.phase = "ran"
    /\ ~mState.options.allowDuplicateMatches
    /\ mState.options.maxMatchesPerProduct = 1
    /\ Len(mState.source) = 2 /\ Len(mState.comp) = 3
    /\ Len(mState.matches) = 2
    /\ mState.matches[1].competitor_product_id = mState.comp[2].id
    /\ mState.matches[2].competitor_product_id = mState.comp[3].id
    /\ Admitted(MatchOf(mState.source[2], mState.comp[1]))
    /\ Admitted(MatchOf(mState.source[2], mState.comp[2]))

\* the persisted matches a matching run wrote (not created by hand)
AutomaticMatches == {r \in dbMatches : r.match_type # "manual"}

\* C36: after any sequence of runMatching invocations the persisted matches
\* reflect the latest run: when it ran with allowDuplicateMatches false no
\* competitor product is the competitor side of two persisted automatic
\* matches, and no source product has more persisted automatic matches than
\* the latest run's maxMatchesPerProduct.
C36_PersistedReflectsLatestRun ==
    mState.phase = "ran" =>
        /\ ~mState.options.allowDuplicateMatches =>
              \A r1, r2 \in AutomaticMatches :
                  r1.competitor_product_id = r2.competitor_product_id => r1 = r2
        /\ \A i \in 1..Len(mState.source) :
              Cardinality({r \in AutomaticMatches :
                              r.source_product_id = mState.source[i].id})
                  <= MatchLimit(mState.options)

\* two rows of product_matches for the same (source, competitor) pair
SamePair(r, q) ==
    /\ r.source_product_id = q.source_product_id
    /\ r.competitor_product_id = q.competitor_product_id

\* C37: a match that is confirmed (is_confirmed = 1) or was created by hand
\* (match_type 'manual') keeps its confirmed flag and its 'manual' type
\* through a later runMatching that scores the same pair.
C37_RunKeepsConfirmedAndManual ==
    [][\A options \in SiteRunOptions :
          RunMatching(options) =>
              \A r \in dbMatches, q \in dbMatches' :
                  SamePair(r, q) =>
                      /\ r.is_confirmed = 1 => q.is_confirmed = 1
                      /\ r.match_type = "manual" => q.match_type = "manual"]_vars

\* C32: persisting a run is an upsert and a re-run is idempotent: the stored
\* matches never hold two rows for one (source, competitor) pair, and right
\* after a run a second run with the same options on the unchanged products
\* computes the same matches and leaves the stored pairs, types, scores and
\* confirmation flags as they are.
C32_UpsertIdempotent ==
    /\ [](\A r, q \in dbMatches : SamePair(r, q) => r = q)
    /\ [][\A options \in SiteRunOptions :
             (RunMatching(options) /\ mState'.phase = "ran") =>
                 LET again == MatchLoop(options, mState'.source, mState'.comp, <<>>, {}) IN
                 /\ again = mState'.matches
                 /\ Len(again) > 0 => ProductMatchCreateMany(dbMatches', again) = dbMatches']_vars

\* a run has stored its match over the row a manual match had for the pair,
\* next to a manual match of another pair
C32_Witness ==
    /\ mState.phase = "ran"
    /\ Len(mState.matches) >= 1
    /\ \E r \in dbMatches :
          /\ r.source_product_id = mState.matches[1].source_product_id
          /\ r.competitor_product_id = mState.matches[1].competitor_product_id
          /\ r.match_type = mState.matches[1].match_type
    /\ \E r \in dbMatches : r.match_type = "manual"
    /\ Cardinality(dbMatches) >= 2

\* the stripped text of the price string of the call
Cleaned == StripNonPrice(priceCall.priceStr)

\* what a stripped text with commas and no '.' stands for: the digits before
\* the last comma with the commas between them dropped, then the group after
\* the last comma as the decimals if it has exactly 2 characters, as further
\* integer digits otherwise; null when no digit is left
CommaPrice(cleaned) ==
    LET last == lastIndexOf(cleaned, ",")
        head == RemoveAll(SubSeq(cleaned, 1, last - 1), ",")
        tail == SubSeq(cleaned, last + 1, Len(cleaned))
    IN  IF Len(tail) = 2 THEN Number(head, tail)
        ELSE IF head \o tail = <<>> THEN NullNumber
        ELSE Number(head \o tail, <<>>)

\* C40: for a price string whose stripped text has commas and no '.': a last
\* group of exactly 2 digits makes the last comma the decimal separator,
\* otherwise every comma is dropped as a thousands separator ('1,234' gives
\* 1234, '1,234,567' gives 1234567); the result is never NaN, and it is null
\* when nothing parseable remains.
C40_CommaPrices ==
    (/\ priceCall.phase = "done"
     /\ includes(Cleaned, <<",">>)
     /\ ~includes(Cleaned, <<".">>)) =>
        /\ priceCall.result.kind # "NaN"
        /\ priceCall.result = CommaPrice(Cleaned)

====
